---- MODULE Spec2Model ----
(***************************************************************************)
(* ForesTracker: the in-memory storage engine (server/storage.ts), the     *)
(* insert schemas (shared/schema.ts) and the REST handlers                 *)
(* (server/routes.ts) as a state machine.                                  *)
(*                                                                         *)
(* A JavaScript Map is a sequence of records in insertion order: set() on  *)
(* a present key replaces the value in place, set() on a fresh key         *)
(* appends, delete() removes and keeps the order of the rest.              *)
(*                                                                         *)
(* A JavaScript object is a TLA+ record; an absent key is a key outside    *)
(* DOMAIN.  Every entity keeps the columns that some code path reads,      *)
(* compares or assigns, plus the free-text columns needed to tell an       *)
(* untouched column from an overwritten one; the remaining free-text and   *)
(* JSON columns travel through the same object spreads and are left out.   *)
(*                                                                         *)
(* Dates are points of an integer clock whose unit is one day (the seed    *)
(* schedules its tasks 5, 7 and 10 days ahead); only their order matters.  *)
(***************************************************************************)
EXTENDS Integers, Sequences, FiniteSets, TLC

\* ------------------------------------------------------------------ bounds
\* storage calls explored after construction
MaxCalls == 2
\* last instant of the clock
MaxTime == 11

VARIABLES
  users, regions, locations, inventoryItems, activities, tasks, metrics,
  userId, regionId, locationId, inventoryId, activityId, taskId, metricId,
  now,        \* what new Date() returns
  ret,        \* the value the last storage method returned
  call,       \* the last storage method called and its arguments
  before,     \* the store as it was when that call started
  res,        \* the response to the last HTTP request: its status and JSON body
  returned,   \* the ids each create method has returned, oldest first
  inflight,   \* the handlers that were started, with their position and locals
  answers,    \* the responses to the requests received, oldest first
  calls       \* number of calls and requests explored so far

maps == <<users, regions, locations, inventoryItems, activities, tasks, metrics>>
counters == <<userId, regionId, locationId, inventoryId, activityId, taskId, metricId>>
vars == <<maps, counters, now, ret, res, call, before, returned, inflight, answers, calls>>

\* ------------------------------------------------------------ JS values
Undefined == [undefined |-> TRUE]
Null == <<>>
\* a Date held in a nullable column
DateOf(t) == <<t>>

\* { ...a, ...b }
Spread(a, b) == [k \in (DOMAIN a) \cup (DOMAIN b) |-> IF k \in DOMAIN b THEN b[k] ELSE a[k]]

\* A Map is the sequence of its entries [k |-> key, v |-> value] in insertion
\* order.  Map.prototype.has / get / set / delete / values:
MapHas(m, key) == \E i \in 1..Len(m) : m[i].k = key
MapGet(m, key) ==
  IF MapHas(m, key) THEN m[CHOOSE i \in 1..Len(m) : m[i].k = key].v ELSE Undefined
MapSet_reinserts(m, key, value) ==
  Append(SelectSeq(m, LAMBDA e : e.k # key), [k |-> key, v |-> value])
MapSet(m, key, value) ==
  IF MapHas(m, key)
  THEN [i \in 1..Len(m) |-> IF m[i].k = key THEN [k |-> key, v |-> value] ELSE m[i]]
  ELSE Append(m, [k |-> key, v |-> value])
MapDelete(m, key) == SelectSeq(m, LAMBDA e : e.k # key)
MapValues(m) == [i \in 1..Len(m) |-> m[i].v]
MapKeys(m) == {m[i].k : i \in 1..Len(m)}

\* Array.prototype.slice(0, end): a negative end counts from the back
Slice0(s, end) ==
  LET e == IF end < 0 THEN (IF Len(s) + end < 0 THEN 0 ELSE Len(s) + end)
           ELSE (IF end < Len(s) THEN end ELSE Len(s))
  IN SubSeq(s, 1, e)

\* Array.prototype.sort((a, b) => key(a) - key(b)): the engine's sort is
\* stable, so elements of equal key keep their order.  keys[i] is the key of
\* s[i].
SortByKey(s, keys) ==
  LET n == Len(s)
      rank(i) == 1 + Cardinality({j \in 1..n :
                       keys[j] < keys[i] \/ (keys[j] = keys[i] /\ j < i)})
  IN [p \in 1..n |-> s[CHOOSE i \in 1..n : rank(i) = p]]

\* ------------------------------------------------------------ the clock
\* new Date(): now is the latest reading of the clock, which never runs
\* backwards; between two readings either no time has passed (the same instant
\* is read again) or five days have, which takes the clock onto and then past
\* the dates the seed schedules.
Elapse == {0, 5}
NewDate == {t \in now..MaxTime : (t - now) \in Elapse}

\* ------------------------------------------------------- storage methods
\* Each method is the effect of one call on the maps, the counters and the
\* clock, with its return value in ret.  No method awaits, so a call runs
\* from its first statement to its return without interruption.

\* ---- users
getUser(id) ==
  /\ ret' = MapGet(users, id)
  /\ UNCHANGED <<maps, counters, now>>

getUserByUsername_lastMatch(username) ==
  /\ ret' = LET vs == MapValues(users)
                hit == {i \in 1..Len(vs) : vs[i].username = username}
            IN IF hit = {} THEN Undefined
               ELSE vs[CHOOSE i \in hit : \A j \in hit : i >= j]
  /\ UNCHANGED <<maps, counters, now>>

getUserByUsername(username) ==
  /\ ret' = LET vs == MapValues(users)
                hit == {i \in 1..Len(vs) : vs[i].username = username}
            IN IF hit = {} THEN Undefined
               ELSE vs[CHOOSE i \in hit : \A j \in hit : i <= j]
  /\ UNCHANGED <<maps, counters, now>>

\* createUser taking the next id from the size of the map
createUser_idFromSize(insertUser) ==
  LET id == Len(users) + 1
      user == Spread(insertUser, [id |-> id])
  IN /\ userId' = userId + 1
     /\ users' = MapSet(users, id, user)
     /\ ret' = user
     /\ UNCHANGED <<regions, locations, inventoryItems, activities, tasks, metrics>>
     /\ UNCHANGED <<regionId, locationId, inventoryId, activityId, taskId, metricId, now>>

createUser(insertUser) ==
  LET id == userId
      user == Spread(insertUser, [id |-> id])
  IN /\ userId' = userId + 1
     /\ users' = MapSet(users, id, user)
     /\ ret' = user
     /\ UNCHANGED <<regions, locations, inventoryItems, activities, tasks, metrics>>
     /\ UNCHANGED <<regionId, locationId, inventoryId, activityId, taskId, metricId, now>>

getUsers ==
  /\ ret' = MapValues(users)
  /\ UNCHANGED <<maps, counters, now>>

updateUser(id, userData) ==
  LET existingUser == MapGet(users, id)
      updatedUser == Spread(existingUser, userData)
  IN IF existingUser = Undefined
     THEN ret' = Undefined /\ UNCHANGED <<maps, counters, now>>
     ELSE /\ users' = MapSet(users, id, updatedUser)
          /\ ret' = updatedUser
          /\ UNCHANGED <<regions, locations, inventoryItems, activities, tasks, metrics>>
          /\ UNCHANGED <<counters, now>>

deleteUser(id) ==
  /\ ret' = MapHas(users, id)
  /\ users' = MapDelete(users, id)
  /\ UNCHANGED <<regions, locations, inventoryItems, activities, tasks, metrics>>
  /\ UNCHANGED <<counters, now>>

\* ---- regions
getRegion(id) ==
  /\ ret' = MapGet(regions, id)
  /\ UNCHANGED <<maps, counters, now>>

getRegions ==
  /\ ret' = MapValues(regions)
  /\ UNCHANGED <<maps, counters, now>>

createRegion(insertRegion) ==
  LET id == regionId
      region == Spread(insertRegion, [id |-> id])
  IN /\ regionId' = regionId + 1
     /\ regions' = MapSet(regions, id, region)
     /\ ret' = region
     /\ UNCHANGED <<users, locations, inventoryItems, activities, tasks, metrics>>
     /\ UNCHANGED <<userId, locationId, inventoryId, activityId, taskId, metricId, now>>

updateRegion(id, regionData) ==
  LET existingRegion == MapGet(regions, id)
      updatedRegion == Spread(existingRegion, regionData)
  IN IF existingRegion = Undefined
     THEN ret' = Undefined /\ UNCHANGED <<maps, counters, now>>
     ELSE /\ regions' = MapSet(regions, id, updatedRegion)
          /\ ret' = updatedRegion
          /\ UNCHANGED <<users, locations, inventoryItems, activities, tasks, metrics>>
          /\ UNCHANGED <<counters, now>>

\* deleteRegion taking the region's locations with it
deleteRegion_cascades(id) ==
  /\ ret' = MapHas(regions, id)
  /\ regions' = MapDelete(regions, id)
  /\ locations' = SelectSeq(locations, LAMBDA entry : entry.v.regionId # id)
  /\ UNCHANGED <<users, inventoryItems, activities, tasks, metrics>>
  /\ UNCHANGED <<counters, now>>

deleteRegion(id) ==
  /\ ret' = MapHas(regions, id)
  /\ regions' = MapDelete(regions, id)
  /\ UNCHANGED <<users, locations, inventoryItems, activities, tasks, metrics>>
  /\ UNCHANGED <<counters, now>>

\* ---- locations
getLocation(id) ==
  /\ ret' = MapGet(locations, id)
  /\ UNCHANGED <<maps, counters, now>>

getLocations ==
  /\ ret' = MapValues(locations)
  /\ UNCHANGED <<maps, counters, now>>

\* the locations of a region that exists, none for any other argument
getLocationsByRegion_knownRegion(region) ==
  /\ ret' = IF MapHas(regions, region)
            THEN SelectSeq(MapValues(locations), LAMBDA location : location.regionId = region)
            ELSE <<>>
  /\ UNCHANGED <<maps, counters, now>>

getLocationsByRegion(region) ==
  /\ ret' = SelectSeq(MapValues(locations), LAMBDA location : location.regionId = region)
  /\ UNCHANGED <<maps, counters, now>>

createLocation(insertLocation) ==
  \E date \in NewDate :
    LET id == locationId
        location == Spread(insertLocation, [id |-> id, lastUpdated |-> date])
    IN /\ now' = date
       /\ locationId' = locationId + 1
       /\ locations' = MapSet(locations, id, location)
       /\ ret' = location
       /\ UNCHANGED <<users, regions, inventoryItems, activities, tasks, metrics>>
       /\ UNCHANGED <<userId, regionId, inventoryId, activityId, taskId, metricId>>

\* updateLocation storing the payload in place of the merged record
updateLocation_replaces(id, locationData) ==
  LET existingLocation == MapGet(locations, id)
  IN IF existingLocation = Undefined
     THEN ret' = Undefined /\ UNCHANGED <<maps, counters, now>>
     ELSE \E date \in NewDate :
            LET updatedLocation ==
                  Spread(locationData, [id |-> id, lastUpdated |-> date])
            IN /\ now' = date
               /\ locations' = MapSet(locations, id, updatedLocation)
               /\ ret' = updatedLocation
               /\ UNCHANGED <<users, regions, inventoryItems, activities, tasks, metrics>>
               /\ UNCHANGED counters

updateLocation(id, locationData) ==
  LET existingLocation == MapGet(locations, id)
  IN IF existingLocation = Undefined
     THEN ret' = Undefined /\ UNCHANGED <<maps, counters, now>>
     ELSE \E date \in NewDate :
            LET updatedLocation ==
                  Spread(Spread(existingLocation, locationData), [lastUpdated |-> date])
            IN /\ now' = date
               /\ locations' = MapSet(locations, id, updatedLocation)
               /\ ret' = updatedLocation
               /\ UNCHANGED <<users, regions, inventoryItems, activities, tasks, metrics>>
               /\ UNCHANGED counters

deleteLocation(id) ==
  /\ ret' = MapHas(locations, id)
  /\ locations' = MapDelete(locations, id)
  /\ UNCHANGED <<users, regions, inventoryItems, activities, tasks, metrics>>
  /\ UNCHANGED <<counters, now>>

\* ---- inventory
getInventoryItem(id) ==
  /\ ret' = MapGet(inventoryItems, id)
  /\ UNCHANGED <<maps, counters, now>>

getInventoryItems ==
  /\ ret' = MapValues(inventoryItems)
  /\ UNCHANGED <<maps, counters, now>>

createInventoryItem(insertItem) ==
  \E date \in NewDate :
    LET id == inventoryId
        item == Spread(insertItem, [id |-> id, lastUpdated |-> date])
    IN /\ now' = date
       /\ inventoryId' = inventoryId + 1
       /\ inventoryItems' = MapSet(inventoryItems, id, item)
       /\ ret' = item
       /\ UNCHANGED <<users, regions, locations, activities, tasks, metrics>>
       /\ UNCHANGED <<userId, regionId, locationId, activityId, taskId, metricId>>

updateInventoryItem(id, itemData) ==
  LET existingItem == MapGet(inventoryItems, id)
  IN IF existingItem = Undefined
     THEN ret' = Undefined /\ UNCHANGED <<maps, counters, now>>
     ELSE \E date \in NewDate :
            LET updatedItem ==
                  Spread(Spread(existingItem, itemData), [lastUpdated |-> date])
            IN /\ now' = date
               /\ inventoryItems' = MapSet(inventoryItems, id, updatedItem)
               /\ ret' = updatedItem
               /\ UNCHANGED <<users, regions, locations, activities, tasks, metrics>>
               /\ UNCHANGED counters

deleteInventoryItem(id) ==
  /\ ret' = MapHas(inventoryItems, id)
  /\ inventoryItems' = MapDelete(inventoryItems, id)
  /\ UNCHANGED <<users, regions, locations, activities, tasks, metrics>>
  /\ UNCHANGED <<counters, now>>

\* ---- activities
getActivity(id) ==
  /\ ret' = MapGet(activities, id)
  /\ UNCHANGED <<maps, counters, now>>

getActivities ==
  /\ ret' = MapValues(activities)
  /\ UNCHANGED <<maps, counters, now>>

\* the activities in ascending order of timestamp, cut to limit
RecentActivities_oldestFirst(limit) ==
  LET vs == MapValues(activities)
  IN Slice0(SortByKey(vs, [i \in 1..Len(vs) |-> vs[i].timestamp]), limit)
\* sort((a, b) => b.timestamp - a.timestamp).slice(0, limit)
RecentActivities(limit) ==
  LET vs == MapValues(activities)
  IN Slice0(SortByKey(vs, [i \in 1..Len(vs) |-> 0 - vs[i].timestamp]), limit)

\* getRecentActivities sorting the stored entries, not a copy of the values
getRecentActivities_sortsStore(limit) ==
  LET sorted == RecentActivities(Len(activities))
  IN /\ ret' = RecentActivities(limit)
     /\ activities' = [i \in 1..Len(sorted) |-> [k |-> sorted[i].id, v |-> sorted[i]]]
     /\ UNCHANGED <<users, regions, locations, inventoryItems, tasks, metrics>>
     /\ UNCHANGED <<counters, now>>

getRecentActivities(limit) ==
  /\ ret' = RecentActivities(limit)
  /\ UNCHANGED <<maps, counters, now>>

createActivity(insertActivity) ==
  \E date \in NewDate :
    LET id == activityId
        activity == Spread(insertActivity, [id |-> id, timestamp |-> date])
    IN /\ now' = date
       /\ activityId' = activityId + 1
       /\ activities' = MapSet(activities, id, activity)
       /\ ret' = activity
       /\ UNCHANGED <<users, regions, locations, inventoryItems, tasks, metrics>>
       /\ UNCHANGED <<userId, regionId, locationId, inventoryId, taskId, metricId>>

updateActivity_stampsTimestamp(id, activityData) ==
  LET existingActivity == MapGet(activities, id)
  IN IF existingActivity = Undefined
     THEN ret' = Undefined /\ UNCHANGED <<maps, counters, now>>
     ELSE \E date \in NewDate :
            LET updatedActivity ==
                  Spread(Spread(existingActivity, activityData), [timestamp |-> date])
            IN /\ now' = date
               /\ activities' = MapSet(activities, id, updatedActivity)
               /\ ret' = updatedActivity
               /\ UNCHANGED <<users, regions, locations, inventoryItems, tasks, metrics>>
               /\ UNCHANGED counters

updateActivity(id, activityData) ==
  LET existingActivity == MapGet(activities, id)
      updatedActivity == Spread(existingActivity, activityData)
  IN IF existingActivity = Undefined
     THEN ret' = Undefined /\ UNCHANGED <<maps, counters, now>>
     ELSE /\ activities' = MapSet(activities, id, updatedActivity)
          /\ ret' = updatedActivity
          /\ UNCHANGED <<users, regions, locations, inventoryItems, tasks, metrics>>
          /\ UNCHANGED <<counters, now>>

deleteActivity(id) ==
  /\ ret' = MapHas(activities, id)
  /\ activities' = MapDelete(activities, id)
  /\ UNCHANGED <<users, regions, locations, inventoryItems, tasks, metrics>>
  /\ UNCHANGED <<counters, now>>

\* ---- tasks
getTask(id) ==
  /\ ret' = MapGet(tasks, id)
  /\ UNCHANGED <<maps, counters, now>>

getTasks ==
  /\ ret' = MapValues(tasks)
  /\ UNCHANGED <<maps, counters, now>>

\* filter(task => !task.completed && task.scheduledDate > date)
\*   .sort((a, b) => a.scheduledDate - b.scheduledDate).slice(0, limit)
\* getUpcomingTasks keeping the tasks scheduled at the very instant it runs
UpcomingTasks_openOnly(date, limit) ==
  LET kept == SelectSeq(MapValues(tasks),
                        LAMBDA task : /\ ~task.completed
                                      /\ task.scheduledDate > date
                                      /\ ("status" \in DOMAIN task =>
                                            task.status \notin {"completed", "cancelled"}))
  IN Slice0(SortByKey(kept, [i \in 1..Len(kept) |-> kept[i].scheduledDate]), limit)

UpcomingTasks_notBefore(date, limit) ==
  LET kept == SelectSeq(MapValues(tasks),
                        LAMBDA task : ~task.completed /\ task.scheduledDate >= date)
  IN Slice0(SortByKey(kept, [i \in 1..Len(kept) |-> kept[i].scheduledDate]), limit)

UpcomingTasks(date, limit) ==
  LET kept == SelectSeq(MapValues(tasks),
                        LAMBDA task : ~task.completed /\ task.scheduledDate > date)
  IN Slice0(SortByKey(kept, [i \in 1..Len(kept) |-> kept[i].scheduledDate]), limit)

getUpcomingTasks(limit) ==
  \E date \in NewDate :
    /\ now' = date
    /\ ret' = UpcomingTasks(date, limit)
    /\ UNCHANGED <<maps, counters>>

createTask(insertTask) ==
  LET id == taskId
      task == Spread(insertTask, [id |-> id, completed |-> FALSE, completedAt |-> Null])
  IN /\ taskId' = taskId + 1
     /\ tasks' = MapSet(tasks, id, task)
     /\ ret' = task
     /\ UNCHANGED <<users, regions, locations, inventoryItems, activities, metrics>>
     /\ UNCHANGED <<userId, regionId, locationId, inventoryId, activityId, metricId, now>>

\* updateTask keeping completed in step with the status it stores
updateTask_syncsCompleted(id, taskData) ==
  LET existingTask == MapGet(tasks, id)
      merged == Spread(existingTask, taskData)
      updatedTask == IF "status" \in DOMAIN merged
                     THEN Spread(merged, [completed |-> merged.status = "completed"])
                     ELSE merged
  IN IF existingTask = Undefined
     THEN ret' = Undefined /\ UNCHANGED <<maps, counters, now>>
     ELSE /\ tasks' = MapSet(tasks, id, updatedTask)
          /\ ret' = updatedTask
          /\ UNCHANGED <<users, regions, locations, inventoryItems, activities, metrics>>
          /\ UNCHANGED <<counters, now>>

updateTask(id, taskData) ==
  LET existingTask == MapGet(tasks, id)
      updatedTask == Spread(existingTask, taskData)
  IN IF existingTask = Undefined
     THEN ret' = Undefined /\ UNCHANGED <<maps, counters, now>>
     ELSE /\ tasks' = MapSet(tasks, id, updatedTask)
          /\ ret' = updatedTask
          /\ UNCHANGED <<users, regions, locations, inventoryItems, activities, metrics>>
          /\ UNCHANGED <<counters, now>>

\* completeTask setting the flag and the status without the date
completeTask_flagOnly(id) ==
  LET existingTask == MapGet(tasks, id)
      completedTask == Spread(existingTask, [completed |-> TRUE, status |-> "completed"])
  IN IF existingTask = Undefined
     THEN ret' = Undefined /\ UNCHANGED <<maps, counters, now>>
     ELSE /\ tasks' = MapSet(tasks, id, completedTask)
          /\ ret' = completedTask
          /\ UNCHANGED <<users, regions, locations, inventoryItems, activities, metrics>>
          /\ UNCHANGED <<counters, now>>

\* completeTask keeping the completedAt of a task completed before
completeTask_keepsFirstDate(id) ==
  LET existingTask == MapGet(tasks, id)
  IN IF existingTask = Undefined
     THEN ret' = Undefined /\ UNCHANGED <<maps, counters, now>>
     ELSE \E date \in NewDate :
            LET completedTask ==
                  Spread(existingTask,
                         [completed |-> TRUE, status |-> "completed",
                          completedAt |-> IF existingTask.completedAt = Null
                                          THEN DateOf(date)
                                          ELSE existingTask.completedAt])
            IN /\ now' = date
               /\ tasks' = MapSet(tasks, id, completedTask)
               /\ ret' = completedTask
               /\ UNCHANGED <<users, regions, locations, inventoryItems, activities, metrics>>
               /\ UNCHANGED counters

completeTask(id) ==
  LET existingTask == MapGet(tasks, id)
  IN IF existingTask = Undefined
     THEN ret' = Undefined /\ UNCHANGED <<maps, counters, now>>
     ELSE \E date \in NewDate :
            LET completedTask ==
                  Spread(existingTask, [completed |-> TRUE, status |-> "completed",
                                        completedAt |-> DateOf(date)])
            IN /\ now' = date
               /\ tasks' = MapSet(tasks, id, completedTask)
               /\ ret' = completedTask
               /\ UNCHANGED <<users, regions, locations, inventoryItems, activities, metrics>>
               /\ UNCHANGED counters

\* deleteTask reporting success whatever Map.delete answered
deleteTask_alwaysTrue(id) ==
  /\ ret' = TRUE
  /\ tasks' = MapDelete(tasks, id)
  /\ UNCHANGED <<users, regions, locations, inventoryItems, activities, metrics>>
  /\ UNCHANGED <<counters, now>>

deleteTask(id) ==
  /\ ret' = MapHas(tasks, id)
  /\ tasks' = MapDelete(tasks, id)
  /\ UNCHANGED <<users, regions, locations, inventoryItems, activities, metrics>>
  /\ UNCHANGED <<counters, now>>

\* ---- metrics
getMetric(id) ==
  /\ ret' = MapGet(metrics, id)
  /\ UNCHANGED <<maps, counters, now>>

getMetrics ==
  /\ ret' = MapValues(metrics)
  /\ UNCHANGED <<maps, counters, now>>

categories == <<"coverage", "species", "risk", "health">>

\* the loop of getLatestMetrics after its first n categories
\* the loop of getLatestMetrics with the sort comparator turned round
RECURSIVE latestMetrics_oldest(_)
latestMetrics_oldest(n) ==
  IF n = 0 THEN <<>>
  ELSE LET category == categories[n]
           kept == SelectSeq(MapValues(metrics), LAMBDA metric : metric.category = category)
           categoryMetrics == SortByKey(kept, [i \in 1..Len(kept) |-> kept[i].timestamp])
       IN IF Len(categoryMetrics) > 0
          THEN Append(latestMetrics_oldest(n - 1), categoryMetrics[1])
          ELSE latestMetrics_oldest(n - 1)

RECURSIVE latestMetrics(_)
latestMetrics(n) ==
  IF n = 0 THEN <<>>
  ELSE LET category == categories[n]
           kept == SelectSeq(MapValues(metrics), LAMBDA metric : metric.category = category)
           categoryMetrics == SortByKey(kept, [i \in 1..Len(kept) |-> 0 - kept[i].timestamp])
       IN IF Len(categoryMetrics) > 0
          THEN Append(latestMetrics(n - 1), categoryMetrics[1])
          ELSE latestMetrics(n - 1)

LatestMetrics == latestMetrics(Len(categories))

getLatestMetrics ==
  /\ ret' = LatestMetrics
  /\ UNCHANGED <<maps, counters, now>>

\* createMetric storing the payload it was given, not the record it returns
createMetric_storesPayload(insertMetric) ==
  \E date \in NewDate :
    LET id == metricId
        metric == Spread(insertMetric, [id |-> id, timestamp |-> date])
    IN /\ now' = date
       /\ metricId' = metricId + 1
       /\ metrics' = MapSet(metrics, id, insertMetric)
       /\ ret' = metric
       /\ UNCHANGED <<users, regions, locations, inventoryItems, activities, tasks>>
       /\ UNCHANGED <<userId, regionId, locationId, inventoryId, activityId, taskId>>

createMetric(insertMetric) ==
  \E date \in NewDate :
    LET id == metricId
        metric == Spread(insertMetric, [id |-> id, timestamp |-> date])
    IN /\ now' = date
       /\ metricId' = metricId + 1
       /\ metrics' = MapSet(metrics, id, metric)
       /\ ret' = metric
       /\ UNCHANGED <<users, regions, locations, inventoryItems, activities, tasks>>
       /\ UNCHANGED <<userId, regionId, locationId, inventoryId, activityId, taskId>>

\* updateMetric without the check that the record exists
updateMetric_upserts(id, metricData) ==
  LET existingMetric == MapGet(metrics, id)
      updatedMetric == IF existingMetric = Undefined THEN metricData
                       ELSE Spread(existingMetric, metricData)
  IN /\ metrics' = MapSet(metrics, id, updatedMetric)
     /\ ret' = updatedMetric
     /\ UNCHANGED <<users, regions, locations, inventoryItems, activities, tasks>>
     /\ UNCHANGED <<counters, now>>

updateMetric(id, metricData) ==
  LET existingMetric == MapGet(metrics, id)
      updatedMetric == Spread(existingMetric, metricData)
  IN IF existingMetric = Undefined
     THEN ret' = Undefined /\ UNCHANGED <<maps, counters, now>>
     ELSE /\ metrics' = MapSet(metrics, id, updatedMetric)
          /\ ret' = updatedMetric
          /\ UNCHANGED <<users, regions, locations, inventoryItems, activities, tasks>>
          /\ UNCHANGED <<counters, now>>

deleteMetric(id) ==
  /\ ret' = MapHas(metrics, id)
  /\ metrics' = MapDelete(metrics, id)
  /\ UNCHANGED <<users, regions, locations, inventoryItems, activities, tasks>>
  /\ UNCHANGED <<counters, now>>

\* ------------------------------------------------------------ seedData
\* The constructor empties the maps, sets every counter to 1 and runs
\* seedData, whose create calls all run before the first request; the
\* whole seed is taken to happen at instant 0 of the clock.
SeedUsers ==
  << [username |-> "admin", password |-> "admin123", role |-> "admin"],
     [username |-> "jforester", password |-> "password123", role |-> "manager"],
     [username |-> "fieldworker", password |-> "field123", role |-> "field_worker"] >>
SeedRegions ==
  << [name |-> "North Region", description |-> "Northern forest area"],
     [name |-> "East Region", description |-> "Eastern forest"],
     [name |-> "South Region", description |-> "Southern forest border"],
     [name |-> "West Region", description |-> "Western border"] >>
SeedLocations ==
  << [regionId |-> 1, status |-> "healthy"],
     [regionId |-> 2, status |-> "monitoring"],
     [regionId |-> 3, status |-> "critical"] >>
SeedInventory ==
  << [quantity |-> 1250, status |-> "available"],
     [quantity |-> 15000, status |-> "low_supply"],
     [quantity |-> 500, status |-> "available"],
     [quantity |-> 45, status |-> "maintenance"] >>
SeedActivities ==
  << [userId |-> 2, type |-> "planting"],
     [userId |-> 3, type |-> "monitoring"],
     [userId |-> 2, type |-> "maintenance"],
     [userId |-> 3, type |-> "maintenance"] >>
SeedTasks ==
  << [title |-> "Weekly tree health inspection", status |-> "pending",
      assignedTo |-> 2, scheduledDate |-> 5],
     [title |-> "Trail maintenance and clearing", status |-> "pending",
      assignedTo |-> 3, scheduledDate |-> 7],
     [title |-> "Wildlife census preparations", status |-> "pending",
      assignedTo |-> 2, scheduledDate |-> 10] >>
SeedMetrics ==
  << [value |-> 12450, category |-> "coverage"],
     [value |-> 78, category |-> "species"],
     [value |-> 24, category |-> "risk"],
     [value |-> 87, category |-> "health"] >>

\* the map of a store whose counters start at 0
Seeded_fromZero(payloads, extra) ==
  [i \in 1..Len(payloads) |->
     [k |-> i - 1, v |-> Spread(payloads[i], Spread(extra, [id |-> i - 1]))]]
\* the map seedData leaves after create was called on each payload in turn,
\* extra being the fields create itself assigns
Seeded(payloads, extra) ==
  [i \in 1..Len(payloads) |-> [k |-> i, v |-> Spread(payloads[i], Spread(extra, [id |-> i]))]]

Store ==
  [users |-> users, regions |-> regions, locations |-> locations,
   inventoryItems |-> inventoryItems, activities |-> activities, tasks |-> tasks,
   metrics |-> metrics,
   userId |-> userId, regionId |-> regionId, locationId |-> locationId,
   inventoryId |-> inventoryId, activityId |-> activityId, taskId |-> taskId,
   metricId |-> metricId, now |-> now]

Init ==
  /\ now = 0
  /\ users = Seeded(SeedUsers, <<>>)
  /\ regions = Seeded(SeedRegions, <<>>)
  /\ locations = Seeded(SeedLocations, [lastUpdated |-> 0])
  /\ inventoryItems = Seeded(SeedInventory, [lastUpdated |-> 0])
  /\ activities = Seeded(SeedActivities, [timestamp |-> 0])
  /\ tasks = Seeded(SeedTasks, [completed |-> FALSE, completedAt |-> Null])
  /\ metrics = Seeded(SeedMetrics, [timestamp |-> 0])
  /\ userId = Len(SeedUsers) + 1
  /\ regionId = Len(SeedRegions) + 1
  /\ locationId = Len(SeedLocations) + 1
  /\ inventoryId = Len(SeedInventory) + 1
  /\ activityId = Len(SeedActivities) + 1
  /\ taskId = Len(SeedTasks) + 1
  /\ metricId = Len(SeedMetrics) + 1
  /\ ret = Undefined
  /\ res = [status |-> 0]
  /\ inflight = <<>>
  /\ answers = <<>>
  /\ call = [op |-> "constructor", id |-> 0, data |-> <<>>]
  /\ before = [users |-> <<>>, regions |-> <<>>, locations |-> <<>>,
               inventoryItems |-> <<>>, activities |-> <<>>, tasks |-> <<>>,
               metrics |-> <<>>,
               userId |-> 1, regionId |-> 1, locationId |-> 1, inventoryId |-> 1,
               activityId |-> 1, taskId |-> 1, metricId |-> 1, now |-> 0]
  /\ returned = [createUser |-> [i \in 1..Len(SeedUsers) |-> i],
                 createRegion |-> [i \in 1..Len(SeedRegions) |-> i],
                 createLocation |-> [i \in 1..Len(SeedLocations) |-> i],
                 createInventoryItem |-> [i \in 1..Len(SeedInventory) |-> i],
                 createActivity |-> [i \in 1..Len(SeedActivities) |-> i],
                 createTask |-> [i \in 1..Len(SeedTasks) |-> i],
                 createMetric |-> [i \in 1..Len(SeedMetrics) |-> i]]
  /\ calls = 0

\* ------------------------------------------------------------- arguments
\* every object that keeps some subset of the keys of p
Partials(p) == {[k \in K |-> p[k]] : K \in SUBSET DOMAIN p}

\* ids passed to a method whose counter stands at c: the id issued last and
\* the id not issued yet
Ids(c) == {c - 1, c}
\* every id issued so far, and the one not issued yet
AllIds(c) == 1..c

\* insert payloads: the second of each omits the column the schema makes
\* optional, or repeats a value a stored record already has
InsertUsers ==
  {[username |-> "ranger", password |-> "secret1", role |-> "manager"],
   [username |-> "admin", password |-> "secret2"]}
InsertRegions == {[name |-> "Wetland", description |-> "Marsh"], [name |-> "North Region"]}
InsertLocations == {[regionId |-> 1, status |-> "unclassified"], [regionId |-> 9]}
InsertInventory == {[quantity |-> 0, status |-> "depleted"], [quantity |-> 10, status |-> "available"]}
InsertActivities == {[userId |-> 1, type |-> "inspection"], [userId |-> 8, type |-> "planting"]}
InsertTasks ==
  {[title |-> "Plant oaks", status |-> "pending", assignedTo |-> 3, scheduledDate |-> 7],
   [title |-> "Survey", scheduledDate |-> 1]}
InsertMetrics == {[value |-> 90, category |-> "health"], [value |-> 1, category |-> "soil"]}

\* partial payloads: every subset of the insert shape
PartialUsers == Partials([username |-> "jforester", role |-> "admin"])
PartialRegions == Partials([name |-> "Renamed", description |-> "Changed"])
PartialLocations == Partials([regionId |-> 4, status |-> "critical"])
PartialInventory == Partials([quantity |-> 7, status |-> "maintenance"])
PartialActivities == Partials([userId |-> 1, type |-> "planting"])
PartialTasks == Partials([title |-> "Renamed", status |-> "cancelled", scheduledDate |-> 3])
PartialMetrics == Partials([value |-> 5, category |-> "health"])

\* --------------------------------------------------------------- calls
\* One call of a storage method: the method's effect A, and the record of
\* what was called on which store.
Storage(op, id, data, A) ==
  /\ calls < MaxCalls
  /\ A
  /\ call' = [op |-> op, id |-> id, data |-> data]
  /\ before' = Store
  /\ calls' = calls + 1
  /\ returned' = IF op \in DOMAIN returned
                 THEN [returned EXCEPT ![op] = Append(@, ret'.id)]
                 ELSE returned
  /\ UNCHANGED <<res, inflight, answers>>

\* every method that writes, on every entity
Next ==
  \/ \E p \in InsertUsers : Storage("createUser", 0, p, createUser(p))
  \/ \E id \in Ids(userId), p \in PartialUsers : Storage("updateUser", id, p, updateUser(id, p))
  \/ \E id \in Ids(userId) : Storage("deleteUser", id, <<>>, deleteUser(id))
  \/ \E p \in InsertRegions : Storage("createRegion", 0, p, createRegion(p))
  \/ \E id \in Ids(regionId), p \in PartialRegions : Storage("updateRegion", id, p, updateRegion(id, p))
  \/ \E id \in Ids(regionId) : Storage("deleteRegion", id, <<>>, deleteRegion(id))
  \/ \E p \in InsertLocations : Storage("createLocation", 0, p, createLocation(p))
  \/ \E id \in Ids(locationId), p \in PartialLocations : Storage("updateLocation", id, p, updateLocation(id, p))
  \/ \E id \in Ids(locationId) : Storage("deleteLocation", id, <<>>, deleteLocation(id))
  \/ \E p \in InsertInventory : Storage("createInventoryItem", 0, p, createInventoryItem(p))
  \/ \E id \in Ids(inventoryId), p \in PartialInventory : Storage("updateInventoryItem", id, p, updateInventoryItem(id, p))
  \/ \E id \in Ids(inventoryId) : Storage("deleteInventoryItem", id, <<>>, deleteInventoryItem(id))
  \/ \E p \in InsertActivities : Storage("createActivity", 0, p, createActivity(p))
  \/ \E id \in Ids(activityId), p \in PartialActivities : Storage("updateActivity", id, p, updateActivity(id, p))
  \/ \E id \in Ids(activityId) : Storage("deleteActivity", id, <<>>, deleteActivity(id))
  \/ \E p \in InsertTasks : Storage("createTask", 0, p, createTask(p))
  \/ \E id \in Ids(taskId), p \in PartialTasks : Storage("updateTask", id, p, updateTask(id, p))
  \/ \E id \in Ids(taskId) : Storage("completeTask", id, <<>>, completeTask(id))
  \/ \E id \in Ids(taskId) : Storage("deleteTask", id, <<>>, deleteTask(id))
  \/ \E p \in InsertMetrics : Storage("createMetric", 0, p, createMetric(p))
  \/ \E id \in Ids(metricId), p \in PartialMetrics : Storage("updateMetric", id, p, updateMetric(id, p))
  \/ \E id \in Ids(metricId) : Storage("deleteMetric", id, <<>>, deleteMetric(id))

Spec == Init /\ [][Next]_vars

\* ---- the task methods alone, on every id and with the reads
MaxLimit == 3
Limits == 0..MaxLimit
TaskDates == {5, 6}
InsertTasksMore ==
  InsertTasks \cup {[title |-> "Patrol", status |-> "pending", scheduledDate |-> d] : d \in TaskDates}
PartialTasksMore ==
  PartialTasks \cup Partials([status |-> "pending", scheduledDate |-> 10])
    \cup {[status |-> "completed"]}

TaskNext ==
  \/ \E id \in AllIds(taskId) : Storage("getTask", id, <<>>, getTask(id))
  \/ Storage("getTasks", 0, <<>>, getTasks)
  \/ \E limit \in Limits : Storage("getUpcomingTasks", 0, limit, getUpcomingTasks(limit))
  \/ \E p \in InsertTasksMore : Storage("createTask", 0, p, createTask(p))
  \/ \E id \in AllIds(taskId), p \in PartialTasksMore : Storage("updateTask", id, p, updateTask(id, p))
  \/ \E id \in AllIds(taskId) : Storage("completeTask", id, <<>>, completeTask(id))
  \/ \E id \in AllIds(taskId) : Storage("deleteTask", id, <<>>, deleteTask(id))

TaskSpec == Init /\ [][TaskNext]_vars

\* ---- the metric methods alone, on every id and with the reads
InsertMetricsMore ==
  InsertMetrics \cup {[value |-> 3, category |-> c] : c \in {"coverage", "risk"}}
PartialMetricsMore ==
  PartialMetrics \cup Partials([value |-> 6, category |-> "species"])

MetricNext ==
  \/ \E id \in AllIds(metricId) : Storage("getMetric", id, <<>>, getMetric(id))
  \/ Storage("getMetrics", 0, <<>>, getMetrics)
  \/ Storage("getLatestMetrics", 0, <<>>, getLatestMetrics)
  \/ \E p \in InsertMetricsMore : Storage("createMetric", 0, p, createMetric(p))
  \/ \E id \in AllIds(metricId), p \in PartialMetricsMore : Storage("updateMetric", id, p, updateMetric(id, p))
  \/ \E id \in AllIds(metricId) : Storage("deleteMetric", id, <<>>, deleteMetric(id))

MetricSpec == Init /\ [][MetricNext]_vars

\* ---- the activity methods alone, on every id and with the reads
ActivityNext ==
  \/ \E id \in AllIds(activityId) : Storage("getActivity", id, <<>>, getActivity(id))
  \/ Storage("getActivities", 0, <<>>, getActivities)
  \/ \E limit \in Limits :
       Storage("getRecentActivities", 0, limit, getRecentActivities(limit))
  \/ \E p \in InsertActivities : Storage("createActivity", 0, p, createActivity(p))
  \/ \E id \in AllIds(activityId), p \in PartialActivities :
       Storage("updateActivity", id, p, updateActivity(id, p))
  \/ \E id \in AllIds(activityId) : Storage("deleteActivity", id, <<>>, deleteActivity(id))

ActivitySpec == Init /\ [][ActivityNext]_vars

\* ---- the location methods on every id, with the reads, and the deletion
\* of regions; the region argument is any integer, a region's id or not
RegionIds == (-1..regionId) \cup {9}

LocationNext ==
  \/ \E id \in AllIds(locationId) : Storage("getLocation", id, <<>>, getLocation(id))
  \/ Storage("getLocations", 0, <<>>, getLocations)
  \/ \E region \in RegionIds :
       Storage("getLocationsByRegion", region, <<>>, getLocationsByRegion(region))
  \/ \E p \in InsertLocations : Storage("createLocation", 0, p, createLocation(p))
  \/ \E id \in AllIds(locationId), p \in PartialLocations :
       Storage("updateLocation", id, p, updateLocation(id, p))
  \/ \E id \in AllIds(locationId) : Storage("deleteLocation", id, <<>>, deleteLocation(id))
  \/ \E id \in AllIds(regionId) : Storage("deleteRegion", id, <<>>, deleteRegion(id))

LocationSpec == Init /\ [][LocationNext]_vars

\* ---------------------------------------------------------- insert schemas
\* A JSON value of a request body carries its JSON type.  A date can only
\* travel as a string; such a string is written here as the date it denotes.
Str(x) == [type |-> "string", value |-> x]
Num(x) == [type |-> "number", value |-> x]
Bool(x) == [type |-> "boolean", value |-> x]

\* createInsertSchema(table).pick({...}): the picked columns, each with the
\* type its validator accepts and whether the key must be there (notNull
\* without a default).  A timestamp column validates as a Date object, which
\* is no JSON type.
Column(type, required) == [type |-> type, required |-> required]
insertUserSchema ==
  [username |-> Column("string", TRUE), password |-> Column("string", TRUE),
   role |-> Column("string", FALSE)]
insertRegionSchema_withId ==
  [id |-> Column("number", FALSE), name |-> Column("string", TRUE),
   description |-> Column("string", FALSE)]
insertRegionSchema == [name |-> Column("string", TRUE), description |-> Column("string", FALSE)]
insertLocationSchema == [regionId |-> Column("number", TRUE), status |-> Column("string", FALSE)]
insertInventorySchema == [quantity |-> Column("number", TRUE), status |-> Column("string", TRUE)]
insertActivitySchema == [userId |-> Column("number", TRUE), type |-> Column("string", TRUE)]
insertTaskSchema ==
  [title |-> Column("string", TRUE), status |-> Column("string", FALSE),
   assignedTo |-> Column("number", FALSE), scheduledDate |-> Column("date", TRUE)]
insertMetricSchema == [value |-> Column("number", TRUE), category |-> Column("string", TRUE)]

\* schema.partial(): every key optional
partial(schema) == [k \in DOMAIN schema |-> Column(schema[k].type, FALSE)]

\* schema.parse(body) throws a ZodError unless every required key is there
\* and every key of the schema that is there has the column's type ...
ParseOk(schema, body) ==
  \A k \in DOMAIN schema :
    IF k \in DOMAIN body THEN body[k].type = schema[k].type ELSE ~schema[k].required
\* parse of a schema made with .passthrough(): unknown keys stay
parse_passthrough(schema, body) == [k \in DOMAIN body |-> body[k].value]
\* ... and returns the keys of the schema alone: a z.object drops the keys
\* it does not know
parse(schema, body) == [k \in (DOMAIN schema) \cap (DOMAIN body) |-> body[k].value]

\* ------------------------------------------------------- path parameters
\* req.params.id is a text, here the tuple of its characters.  DecimalText(n)
\* is the text a client writes for the id n >= 0.
DigitChars == <<"0", "1", "2", "3", "4", "5", "6", "7", "8", "9">>
IsDigit(c) == \E i \in DOMAIN DigitChars : DigitChars[i] = c
DigitValue(c) == (CHOOSE i \in DOMAIN DigitChars : DigitChars[i] = c) - 1
RECURSIVE DecimalText(_)
DecimalText(n) ==
  IF n < 10 THEN <<DigitChars[n + 1]>>
  ELSE Append(DecimalText(n \div 10), DigitChars[(n % 10) + 1])

\* NaN is a number that equals no key of a Map which holds ids; no text of
\* the model parses to the integer that stands for it.
NaN == -1
\* parseInt(text): an optional minus sign, then the value of the longest run
\* of digits that follows, whatever comes after it, and NaN when there is
\* no digit there
RECURSIVE ValueOfDigits(_, _)
ValueOfDigits(text, k) ==
  IF k = 0 THEN 0 ELSE ValueOfDigits(text, k - 1) * 10 + DigitValue(text[k])
parseInt(text) ==
  LET minus == Len(text) > 0 /\ text[1] = "-"
      digits == IF minus THEN Tail(text) ELSE text
      k == Cardinality({n \in 1..Len(digits) : \A j \in 1..n : IsDigit(digits[j])})
  IN IF k = 0 THEN NaN
     ELSE IF minus THEN 0 - ValueOfDigits(digits, k) ELSE ValueOfDigits(digits, k)

\* ---------------------------------------------------------------- routes
\* A handler runs its request from parse to response; its one await is on a
\* storage method that never suspends.
handleZodError == res' = [status |-> 400, body |-> [error |-> "Validation error"]]

\* what a PUT answers once its update has returned: 404 when it found
\* nothing, else 200 with the record
Updated(record, notFound) ==
  IF record = Undefined
  THEN [status |-> 404, body |-> [error |-> notFound]]
  ELSE [status |-> 200, body |-> record]

\* app.post: parse, create, 201 with the record.  app.put: parseInt the path
\* parameter, parse the partial shape, then update.  A ZodError leaves before storage is called.
PostApiUsers(body) ==
  IF ParseOk(insertUserSchema, body)
  THEN /\ createUser(parse(insertUserSchema, body))
       /\ res' = [status |-> 201, body |-> ret']
  ELSE /\ handleZodError
       /\ UNCHANGED <<maps, counters, now, ret>>
\* the PUT handler looking the user up before it parses the body
PutApiUsersId_lookupFirst(param, body) ==
  IF ~MapHas(users, parseInt(param))
  THEN /\ res' = [status |-> 404, body |-> [error |-> "User not found"]]
       /\ UNCHANGED <<maps, counters, now, ret>>
  ELSE IF ParseOk(partial(insertUserSchema), body)
       THEN /\ updateUser(parseInt(param), parse(partial(insertUserSchema), body))
            /\ res' = Updated(ret', "User not found")
       ELSE /\ handleZodError
            /\ UNCHANGED <<maps, counters, now, ret>>
PutApiUsersId(param, body) ==
  IF ParseOk(partial(insertUserSchema), body)
  THEN /\ updateUser(parseInt(param), parse(partial(insertUserSchema), body))
       /\ res' = Updated(ret', "User not found")
  ELSE /\ handleZodError
       /\ UNCHANGED <<maps, counters, now, ret>>
PostApiRegions(body) ==
  IF ParseOk(insertRegionSchema, body)
  THEN /\ createRegion(parse(insertRegionSchema, body))
       /\ res' = [status |-> 201, body |-> ret']
  ELSE /\ handleZodError
       /\ UNCHANGED <<maps, counters, now, ret>>
PutApiRegionsId(param, body) ==
  IF ParseOk(partial(insertRegionSchema), body)
  THEN /\ updateRegion(parseInt(param), parse(partial(insertRegionSchema), body))
       /\ res' = Updated(ret', "Region not found")
  ELSE /\ handleZodError
       /\ UNCHANGED <<maps, counters, now, ret>>
PostApiLocations(body) ==
  IF ParseOk(insertLocationSchema, body)
  THEN /\ createLocation(parse(insertLocationSchema, body))
       /\ res' = [status |-> 201, body |-> ret']
  ELSE /\ handleZodError
       /\ UNCHANGED <<maps, counters, now, ret>>
PutApiLocationsId(param, body) ==
  IF ParseOk(partial(insertLocationSchema), body)
  THEN /\ updateLocation(parseInt(param), parse(partial(insertLocationSchema), body))
       /\ res' = Updated(ret', "Location not found")
  ELSE /\ handleZodError
       /\ UNCHANGED <<maps, counters, now, ret>>
PostApiInventory(body) ==
  IF ParseOk(insertInventorySchema, body)
  THEN /\ createInventoryItem(parse(insertInventorySchema, body))
       /\ res' = [status |-> 201, body |-> ret']
  ELSE /\ handleZodError
       /\ UNCHANGED <<maps, counters, now, ret>>
PutApiInventoryId(param, body) ==
  IF ParseOk(partial(insertInventorySchema), body)
  THEN /\ updateInventoryItem(parseInt(param), parse(partial(insertInventorySchema), body))
       /\ res' = Updated(ret', "Inventory item not found")
  ELSE /\ handleZodError
       /\ UNCHANGED <<maps, counters, now, ret>>
PostApiActivities(body) ==
  IF ParseOk(insertActivitySchema, body)
  THEN /\ createActivity(parse(insertActivitySchema, body))
       /\ res' = [status |-> 201, body |-> ret']
  ELSE /\ handleZodError
       /\ UNCHANGED <<maps, counters, now, ret>>
PutApiActivitiesId(param, body) ==
  IF ParseOk(partial(insertActivitySchema), body)
  THEN /\ updateActivity(parseInt(param), parse(partial(insertActivitySchema), body))
       /\ res' = Updated(ret', "Activity not found")
  ELSE /\ handleZodError
       /\ UNCHANGED <<maps, counters, now, ret>>
PostApiTasks(body) ==
  IF ParseOk(insertTaskSchema, body)
  THEN /\ createTask(parse(insertTaskSchema, body))
       /\ res' = [status |-> 201, body |-> ret']
  ELSE /\ handleZodError
       /\ UNCHANGED <<maps, counters, now, ret>>
PutApiTasksId(param, body) ==
  IF ParseOk(partial(insertTaskSchema), body)
  THEN /\ updateTask(parseInt(param), parse(partial(insertTaskSchema), body))
       /\ res' = Updated(ret', "Task not found")
  ELSE /\ handleZodError
       /\ UNCHANGED <<maps, counters, now, ret>>
PostApiMetrics(body) ==
  IF ParseOk(insertMetricSchema, body)
  THEN /\ createMetric(parse(insertMetricSchema, body))
       /\ res' = [status |-> 201, body |-> ret']
  ELSE /\ handleZodError
       /\ UNCHANGED <<maps, counters, now, ret>>
PutApiMetricsId(param, body) ==
  IF ParseOk(partial(insertMetricSchema), body)
  THEN /\ updateMetric(parseInt(param), parse(partial(insertMetricSchema), body))
       /\ res' = Updated(ret', "Metric not found")
  ELSE /\ handleZodError
       /\ UNCHANGED <<maps, counters, now, ret>>

\* what a DELETE answers once the delete has returned: 404 when nothing was
\* deleted, else 204 without a body
Deleted(success, notFound) ==
  IF success
  THEN [status |-> 204]
  ELSE [status |-> 404, body |-> [error |-> notFound]]

\* app.get("/api/<resource>/:id") and app.delete("/api/<resource>/:id"):
\* parseInt the path parameter, call storage, answer
GetApiUsersId(param) ==
  /\ getUser(parseInt(param))
  /\ res' = Updated(ret', "User not found")
\* the DELETE handler answering 200 with a body
DeleteApiUsersId_answers200(param) ==
  /\ deleteUser(parseInt(param))
  /\ res' = IF ret'
            THEN [status |-> 200, body |-> [success |-> TRUE]]
            ELSE [status |-> 404, body |-> [error |-> "User not found"]]
DeleteApiUsersId(param) ==
  /\ deleteUser(parseInt(param))
  /\ res' = Deleted(ret', "User not found")
GetApiRegionsId(param) ==
  /\ getRegion(parseInt(param))
  /\ res' = Updated(ret', "Region not found")
DeleteApiRegionsId(param) ==
  /\ deleteRegion(parseInt(param))
  /\ res' = Deleted(ret', "Region not found")
GetApiLocationsId(param) ==
  /\ getLocation(parseInt(param))
  /\ res' = Updated(ret', "Location not found")
DeleteApiLocationsId(param) ==
  /\ deleteLocation(parseInt(param))
  /\ res' = Deleted(ret', "Location not found")
GetApiInventoryId(param) ==
  /\ getInventoryItem(parseInt(param))
  /\ res' = Updated(ret', "Inventory item not found")
DeleteApiInventoryId(param) ==
  /\ deleteInventoryItem(parseInt(param))
  /\ res' = Deleted(ret', "Inventory item not found")
GetApiActivitiesId(param) ==
  /\ getActivity(parseInt(param))
  /\ res' = Updated(ret', "Activity not found")
DeleteApiActivitiesId(param) ==
  /\ deleteActivity(parseInt(param))
  /\ res' = Deleted(ret', "Activity not found")
GetApiTasksId(param) ==
  /\ getTask(parseInt(param))
  /\ res' = Updated(ret', "Task not found")
DeleteApiTasksId(param) ==
  /\ deleteTask(parseInt(param))
  /\ res' = Deleted(ret', "Task not found")
GetApiMetricsId(param) ==
  /\ getMetric(parseInt(param))
  /\ res' = Updated(ret', "Metric not found")
DeleteApiMetricsId(param) ==
  /\ deleteMetric(parseInt(param))
  /\ res' = Deleted(ret', "Metric not found")

\* the handler answering 400 to a path parameter that is no number
PutApiTasksIdComplete_rejectsNaN(param) ==
  IF parseInt(param) = NaN
  THEN /\ res' = [status |-> 400, body |-> [error |-> "Invalid id"]]
       /\ UNCHANGED <<maps, counters, now, ret>>
  ELSE /\ completeTask(parseInt(param))
       /\ res' = Updated(ret', "Task not found")
\* app.put("/api/tasks/:id/complete")
PutApiTasksIdComplete(param) ==
  /\ completeTask(parseInt(param))
  /\ res' = Updated(ret', "Task not found")

\* app.get("/api/<resource>"): the whole collection, or for four of them
\* the view a query parameter asks for.  A query parameter is a text; the
\* empty text also stands for a parameter that is not there, both being
\* falsy, as are the numbers NaN and 0.
Truthy(n) == n # NaN /\ n # 0
GetApiUsers ==
  /\ getUsers
  /\ res' = [status |-> 200, body |-> ret']
GetApiRegions ==
  /\ getRegions
  /\ res' = [status |-> 200, body |-> ret']
GetApiLocations(regionIdText) ==
  /\ IF regionIdText # <<>> /\ Truthy(parseInt(regionIdText))
     THEN getLocationsByRegion(parseInt(regionIdText))
     ELSE getLocations
  /\ res' = [status |-> 200, body |-> ret']
GetApiInventory ==
  /\ getInventoryItems
  /\ res' = [status |-> 200, body |-> ret']
GetApiActivities(limitText) ==
  /\ IF limitText # <<>> /\ Truthy(parseInt(limitText))
     THEN getRecentActivities(parseInt(limitText))
     ELSE getActivities
  /\ res' = [status |-> 200, body |-> ret']
GetApiTasks(limitText) ==
  /\ IF limitText # <<>> /\ Truthy(parseInt(limitText))
     THEN getUpcomingTasks(parseInt(limitText))
     ELSE getTasks
  /\ res' = [status |-> 200, body |-> ret']
GetApiMetrics(latestText) ==
  /\ IF latestText = <<"t", "r", "u", "e">>
     THEN getLatestMetrics
     ELSE getMetrics
  /\ res' = [status |-> 200, body |-> ret']

\* --------------------------------------------------------------- requests
\* One request: the handler's effect A, and the record of what was asked of
\* which store, id being the text of the path parameter (empty when the
\* route has none).  method names the create method a POST calls.
Route(op, method, param, body, A) ==
  /\ calls < MaxCalls
  /\ A
  /\ call' = [op |-> op, id |-> param, data |-> body]
  /\ before' = Store
  /\ calls' = calls + 1
  /\ returned' = IF res'.status = 201
                 THEN [returned EXCEPT ![method] = Append(@, ret'.id)]
                 ELSE returned
  /\ UNCHANGED <<inflight, answers>>

\* keys a client may add to a body although the server assigns them
ClientSupplied ==
  [id |-> Num(99), timestamp |-> Str(3), lastUpdated |-> Str(3),
   completed |-> Bool(TRUE), completedAt |-> Str(DateOf(3))]

\* request bodies: the whole insert shape, a part of it, and a value of the
\* wrong type; the first two also with the client-supplied keys added
Bodies(whole, part, wrong) ==
  <<whole, part, wrong, Spread(whole, ClientSupplied), Spread(part, ClientSupplied)>>
Body == 1..5
\* ... for users one more, the whole of the sign-up form with a confirmation
\* that differs from the password
UserBodies ==
  Bodies([username |-> Str("ranger"), password |-> Str("secret1"), role |-> Str("manager")],
         [role |-> Str("admin")], [username |-> Num(7)])
    \o << [username |-> Str("ranger"), password |-> Str("secret1"),
           confirmPassword |-> Str("secret2")] >>
RegionBodies ==
  Bodies([name |-> Str("Wetland"), description |-> Str("Marsh")],
         [description |-> Str("Changed")], [name |-> Bool(TRUE)])
LocationBodies ==
  Bodies([regionId |-> Num(1), status |-> Str("critical")],
         [status |-> Str("unclassified")], [regionId |-> Str("1")])
\* ... and for inventory one more, with a quantity below zero
InventoryBodies ==
  Bodies([quantity |-> Num(0), status |-> Str("depleted")],
         [quantity |-> Num(7)], [quantity |-> Str("7")])
    \o << [quantity |-> Num(-5), status |-> Str("available")] >>
ActivityBodies ==
  Bodies([userId |-> Num(1), type |-> Str("inspection")],
         [type |-> Str("planting")], [userId |-> Str("1")])
TaskBodies ==
  Bodies([title |-> Str("Plant oaks"), status |-> Str("pending"), scheduledDate |-> Str(7)],
         [title |-> Str("Renamed"), status |-> Str("cancelled")], [title |-> Num(7)])
MetricBodies ==
  Bodies([value |-> Num(90), category |-> Str("health")],
         [value |-> Num(5)], [category |-> Num(5)])

\* the POST and PUT routes of the seven resources
ApiNext ==
  \/ \E i \in DOMAIN UserBodies : Route("POST /api/users", "createUser", <<>>, UserBodies[i], PostApiUsers(UserBodies[i]))
  \/ \E id \in Ids(userId), i \in DOMAIN UserBodies :
       Route("PUT /api/users/:id", "", DecimalText(id), UserBodies[i], PutApiUsersId(DecimalText(id), UserBodies[i]))
  \/ \E i \in Body : Route("POST /api/regions", "createRegion", <<>>, RegionBodies[i], PostApiRegions(RegionBodies[i]))
  \/ \E id \in Ids(regionId), i \in Body :
       Route("PUT /api/regions/:id", "", DecimalText(id), RegionBodies[i], PutApiRegionsId(DecimalText(id), RegionBodies[i]))
  \/ \E i \in Body :
       Route("POST /api/locations", "createLocation", <<>>, LocationBodies[i], PostApiLocations(LocationBodies[i]))
  \/ \E id \in Ids(locationId), i \in Body :
       Route("PUT /api/locations/:id", "", DecimalText(id), LocationBodies[i], PutApiLocationsId(DecimalText(id), LocationBodies[i]))
  \/ \E i \in DOMAIN InventoryBodies :
       Route("POST /api/inventory", "createInventoryItem", <<>>, InventoryBodies[i], PostApiInventory(InventoryBodies[i]))
  \/ \E id \in Ids(inventoryId), i \in DOMAIN InventoryBodies :
       Route("PUT /api/inventory/:id", "", DecimalText(id), InventoryBodies[i], PutApiInventoryId(DecimalText(id), InventoryBodies[i]))
  \/ \E i \in Body :
       Route("POST /api/activities", "createActivity", <<>>, ActivityBodies[i], PostApiActivities(ActivityBodies[i]))
  \/ \E id \in Ids(activityId), i \in Body :
       Route("PUT /api/activities/:id", "", DecimalText(id), ActivityBodies[i], PutApiActivitiesId(DecimalText(id), ActivityBodies[i]))
  \/ \E i \in Body : Route("POST /api/tasks", "createTask", <<>>, TaskBodies[i], PostApiTasks(TaskBodies[i]))
  \/ \E id \in Ids(taskId), i \in Body :
       Route("PUT /api/tasks/:id", "", DecimalText(id), TaskBodies[i], PutApiTasksId(DecimalText(id), TaskBodies[i]))
  \/ \E i \in Body : Route("POST /api/metrics", "createMetric", <<>>, MetricBodies[i], PostApiMetrics(MetricBodies[i]))
  \/ \E id \in Ids(metricId), i \in Body :
       Route("PUT /api/metrics/:id", "", DecimalText(id), MetricBodies[i], PutApiMetricsId(DecimalText(id), MetricBodies[i]))

ApiSpec == Init /\ [][ApiNext]_vars

\* ---- the routes that address one record, on the id issued last, on an id
\* never issued, on a text that is no number and on one that starts with a
\* number; a PUT carries a part of the insert shape
Params(c) ==
  {DecimalText(c - 1), <<"9", "9", "9">>, <<"a", "b", "c">>, Append(DecimalText(c - 1), "x")}

IdRouteNext ==
  \/ \E param \in Params(userId) :
       Route("GET /api/users/:id", "", param, <<>>, GetApiUsersId(param))
  \/ \E param \in Params(userId) :
       Route("PUT /api/users/:id", "", param, UserBodies[2], PutApiUsersId(param, UserBodies[2]))
  \/ \E param \in Params(userId) :
       Route("DELETE /api/users/:id", "", param, <<>>, DeleteApiUsersId(param))
  \/ \E param \in Params(regionId) :
       Route("GET /api/regions/:id", "", param, <<>>, GetApiRegionsId(param))
  \/ \E param \in Params(regionId) :
       Route("PUT /api/regions/:id", "", param, RegionBodies[2], PutApiRegionsId(param, RegionBodies[2]))
  \/ \E param \in Params(regionId) :
       Route("DELETE /api/regions/:id", "", param, <<>>, DeleteApiRegionsId(param))
  \/ \E param \in Params(locationId) :
       Route("GET /api/locations/:id", "", param, <<>>, GetApiLocationsId(param))
  \/ \E param \in Params(locationId) :
       Route("PUT /api/locations/:id", "", param, LocationBodies[2], PutApiLocationsId(param, LocationBodies[2]))
  \/ \E param \in Params(locationId) :
       Route("DELETE /api/locations/:id", "", param, <<>>, DeleteApiLocationsId(param))
  \/ \E param \in Params(inventoryId) :
       Route("GET /api/inventory/:id", "", param, <<>>, GetApiInventoryId(param))
  \/ \E param \in Params(inventoryId) :
       Route("PUT /api/inventory/:id", "", param, InventoryBodies[2], PutApiInventoryId(param, InventoryBodies[2]))
  \/ \E param \in Params(inventoryId) :
       Route("DELETE /api/inventory/:id", "", param, <<>>, DeleteApiInventoryId(param))
  \/ \E param \in Params(activityId) :
       Route("GET /api/activities/:id", "", param, <<>>, GetApiActivitiesId(param))
  \/ \E param \in Params(activityId) :
       Route("PUT /api/activities/:id", "", param, ActivityBodies[2], PutApiActivitiesId(param, ActivityBodies[2]))
  \/ \E param \in Params(activityId) :
       Route("DELETE /api/activities/:id", "", param, <<>>, DeleteApiActivitiesId(param))
  \/ \E param \in Params(taskId) :
       Route("GET /api/tasks/:id", "", param, <<>>, GetApiTasksId(param))
  \/ \E param \in Params(taskId) :
       Route("PUT /api/tasks/:id", "", param, TaskBodies[2], PutApiTasksId(param, TaskBodies[2]))
  \/ \E param \in Params(taskId) :
       Route("DELETE /api/tasks/:id", "", param, <<>>, DeleteApiTasksId(param))
  \/ \E param \in Params(metricId) :
       Route("GET /api/metrics/:id", "", param, <<>>, GetApiMetricsId(param))
  \/ \E param \in Params(metricId) :
       Route("PUT /api/metrics/:id", "", param, MetricBodies[2], PutApiMetricsId(param, MetricBodies[2]))
  \/ \E param \in Params(metricId) :
       Route("DELETE /api/metrics/:id", "", param, <<>>, DeleteApiMetricsId(param))
  \/ \E param \in Params(taskId) :
       Route("PUT /api/tasks/:id/complete", "", param, <<>>, PutApiTasksIdComplete(param))

IdRouteSpec == Init /\ [][IdRouteNext]_vars

\* ---- the list routes that read a query parameter, on a store that the
\* write methods of their collections have changed.  The parameter is
\* absent, a number (0, one that selects, one beyond every record, a
\* negative one) or no number.
QueryTexts == {<<>>, <<"0">>, <<"1">>, <<"2">>, <<"9">>, <<"-", "2">>, <<"a", "b", "c">>}
InsertLocationsMore == InsertLocations \cup {[regionId |-> 0, status |-> "unclassified"]}

QueryNext ==
  \/ \E text \in QueryTexts :
       Route("GET /api/locations", "", text, <<>>, GetApiLocations(text))
  \/ \E text \in QueryTexts :
       Route("GET /api/activities", "", text, <<>>, GetApiActivities(text))
  \/ \E text \in QueryTexts :
       Route("GET /api/tasks", "", text, <<>>, GetApiTasks(text))
  \/ \E p \in InsertLocationsMore : Storage("createLocation", 0, p, createLocation(p))
  \/ \E id \in Ids(locationId) : Storage("deleteLocation", id, <<>>, deleteLocation(id))
  \/ \E p \in InsertActivities : Storage("createActivity", 0, p, createActivity(p))
  \/ \E p \in InsertTasksMore : Storage("createTask", 0, p, createTask(p))
  \/ \E id \in AllIds(taskId) : Storage("completeTask", id, <<>>, completeTask(id))

QuerySpec == Init /\ [][QueryNext]_vars

\* ---- every method of the storage: the writes of Next and every read
Usernames == {"admin", "jforester", "nobody"}

ReadNext ==
  \/ Next
  \/ \E id \in Ids(userId) : Storage("getUser", id, <<>>, getUser(id))
  \/ \E username \in Usernames :
       Storage("getUserByUsername", username, <<>>, getUserByUsername(username))
  \/ Storage("getUsers", 0, <<>>, getUsers)
  \/ \E id \in Ids(regionId) : Storage("getRegion", id, <<>>, getRegion(id))
  \/ Storage("getRegions", 0, <<>>, getRegions)
  \/ \E id \in Ids(locationId) : Storage("getLocation", id, <<>>, getLocation(id))
  \/ Storage("getLocations", 0, <<>>, getLocations)
  \/ \E region \in {1, 9} :
       Storage("getLocationsByRegion", region, <<>>, getLocationsByRegion(region))
  \/ \E id \in Ids(inventoryId) : Storage("getInventoryItem", id, <<>>, getInventoryItem(id))
  \/ Storage("getInventoryItems", 0, <<>>, getInventoryItems)
  \/ \E id \in Ids(activityId) : Storage("getActivity", id, <<>>, getActivity(id))
  \/ Storage("getActivities", 0, <<>>, getActivities)
  \/ \E limit \in {1, MaxLimit} :
       Storage("getRecentActivities", 0, limit, getRecentActivities(limit))
  \/ \E id \in Ids(taskId) : Storage("getTask", id, <<>>, getTask(id))
  \/ Storage("getTasks", 0, <<>>, getTasks)
  \/ \E limit \in {1, MaxLimit} :
       Storage("getUpcomingTasks", 0, limit, getUpcomingTasks(limit))
  \/ \E id \in Ids(metricId) : Storage("getMetric", id, <<>>, getMetric(id))
  \/ Storage("getMetrics", 0, <<>>, getMetrics)
  \/ Storage("getLatestMetrics", 0, <<>>, getLatestMetrics)

ReadSpec == Init /\ [][ReadNext]_vars

\* ------------------------------------------------------ handlers in flight
\* The event loop runs one handler at a time and a handler gives way only
\* at an await.  POST /api/inventory has one: a request arrives; the handler
\* runs from its first statement to its await, the body of
\* createInventoryItem included, which has no await of its own; any other
\* handler may run; the handler resumes and responds.
Arrive(body) ==
  /\ calls < MaxCalls
  /\ calls' = calls + 1
  /\ inflight' = Append(inflight, [pc |-> "start", body |-> body])
  /\ UNCHANGED <<maps, counters, now, ret, res, call, before, returned, answers>>

\* createInventoryItem giving way between reading the counter and writing
\* it back
PostApiInventoryStart_awaitsInside(r) ==
  LET body == inflight[r].body
  IN \/ /\ inflight[r].pc = "start"
        /\ ParseOk(insertInventorySchema, body)
        /\ inflight' = [inflight EXCEPT ![r] =
                          [pc |-> "reading", body |-> body, id |-> inventoryId]]
        /\ UNCHANGED <<maps, counters, now, ret, res>>
     \/ /\ inflight[r].pc = "start"
        /\ ~ParseOk(insertInventorySchema, body)
        /\ handleZodError
        /\ inflight' = [inflight EXCEPT ![r] = [pc |-> "done", body |-> body, res |-> res']]
        /\ UNCHANGED <<maps, counters, now, ret>>
     \/ /\ inflight[r].pc = "reading"
        /\ \E date \in NewDate :
             LET id == inflight[r].id
                 item == Spread(parse(insertInventorySchema, body),
                                [id |-> id, lastUpdated |-> date])
             IN /\ now' = date
                /\ inventoryId' = id + 1
                /\ inventoryItems' = MapSet(inventoryItems, id, item)
                /\ ret' = item
                /\ inflight' = [inflight EXCEPT ![r] =
                                  [pc |-> "awaiting", body |-> body, item |-> item]]
        /\ UNCHANGED <<users, regions, locations, activities, tasks, metrics>>
        /\ UNCHANGED <<userId, regionId, locationId, activityId, taskId, metricId, res>>

\* from the first statement to the await: parse, then the whole of
\* createInventoryItem; a ZodError is answered at once
PostApiInventoryStart(r) ==
  LET body == inflight[r].body
  IN /\ inflight[r].pc = "start"
     /\ IF ParseOk(insertInventorySchema, body)
        THEN /\ createInventoryItem(parse(insertInventorySchema, body))
             /\ inflight' = [inflight EXCEPT ![r] =
                               [pc |-> "awaiting", body |-> body, item |-> ret']]
             /\ UNCHANGED res
        ELSE /\ handleZodError
             /\ inflight' = [inflight EXCEPT ![r] =
                               [pc |-> "done", body |-> body, res |-> res']]
             /\ UNCHANGED <<maps, counters, now, ret>>

\* after the await: res.status(201).json(item)
PostApiInventoryResume(r) ==
  /\ inflight[r].pc = "awaiting"
  /\ res' = [status |-> 201, body |-> inflight[r].item]
  /\ inflight' = [inflight EXCEPT ![r] =
                    [pc |-> "done", body |-> @.body, item |-> @.item, res |-> res']]
  /\ UNCHANGED <<maps, counters, now, ret>>

ConcurrentNext ==
  \/ \E i \in DOMAIN InventoryBodies : Arrive(InventoryBodies[i])
  \/ \E r \in DOMAIN inflight :
       PostApiInventoryStart(r) /\ UNCHANGED <<call, before, returned, answers, calls>>
  \/ \E r \in DOMAIN inflight :
       PostApiInventoryResume(r) /\ UNCHANGED <<call, before, returned, answers, calls>>

ConcurrentSpec == Init /\ [][ConcurrentNext]_vars

\* ------------------------------------------------------------------ claims
\* The map and the counter each method works on.
Entities == {"users", "regions", "locations", "inventoryItems", "activities", "tasks", "metrics"}
CounterOf == [users |-> "userId", regions |-> "regionId", locations |-> "locationId",
              inventoryItems |-> "inventoryId", activities |-> "activityId",
              tasks |-> "taskId", metrics |-> "metricId"]
CreateOf == [users |-> "createUser", regions |-> "createRegion",
             locations |-> "createLocation", inventoryItems |-> "createInventoryItem",
             activities |-> "createActivity", tasks |-> "createTask",
             metrics |-> "createMetric"]
UpdateOf == [users |-> "updateUser", regions |-> "updateRegion",
             locations |-> "updateLocation", inventoryItems |-> "updateInventoryItem",
             activities |-> "updateActivity", tasks |-> "updateTask",
             metrics |-> "updateMetric"]
DeleteOf == [users |-> "deleteUser", regions |-> "deleteRegion",
             locations |-> "deleteLocation", inventoryItems |-> "deleteInventoryItem",
             activities |-> "deleteActivity", tasks |-> "deleteTask",
             metrics |-> "deleteMetric"]
\* the fields the storage layer assigns itself
RefreshedOf == [users |-> {}, regions |-> {}, locations |-> {"lastUpdated"},
                inventoryItems |-> {"lastUpdated"}, activities |-> {}, tasks |-> {},
                metrics |-> {}]
StoreKeys == Entities \cup {CounterOf[e] : e \in Entities}
SameStore(a, b) == \A k \in StoreKeys : a[k] = b[k]

\* C1: in every collection the stored ids are positive integers, no two
\* records share an id, every stored id was returned by a create, and the ids
\* a create method has returned so far are strictly increasing, so that an id
\* freed by a delete is never returned again.
C1_IdsUniqueMonotonicNeverReused ==
  \A e \in Entities :
    LET m == Store[e]
        r == returned[CreateOf[e]]
    IN /\ \A i \in 1..Len(m) : m[i].v.id \in Nat /\ m[i].v.id > 0
       /\ \A i, j \in 1..Len(m) : i # j => m[i].v.id # m[j].v.id
       /\ \A i \in 1..Len(m) : \E j \in 1..Len(r) : r[j] = m[i].v.id
       /\ \A i \in 1..Len(r) : r[i] > 0
       /\ \A i, j \in 1..Len(r) : i < j => r[i] < r[j]
       /\ call.op = CreateOf[e] =>
            /\ ret.id = r[Len(r)]
            /\ ~MapHas(before[e], ret.id)

\* a create that follows the delete of an id issued earlier
C1_Witness ==
  /\ call.op = "createUser"
  /\ \E id \in 1..(before.userId - 1) : ~MapHas(before.users, id)
  /\ MapHas(users, ret.id)

\* C2: an update of a record that exists overwrites exactly the fields of
\* the partial payload and keeps every other field, the id included; only
\* lastUpdated of a location or an inventory item may change besides.
C2_UpdateMergesOnlySupplied ==
  \A e \in Entities :
    (call.op = UpdateOf[e] /\ MapHas(before[e], call.id)) =>
      LET old == MapGet(before[e], call.id)
          new == MapGet(Store[e], call.id)
      IN /\ ret = new
         /\ DOMAIN new = (DOMAIN old) \cup (DOMAIN call.data)
         /\ \A k \in DOMAIN call.data : new[k] = call.data[k]
         /\ \A k \in (DOMAIN old) \ (DOMAIN call.data) :
              k \in RefreshedOf[e] \/ new[k] = old[k]
         /\ new.id = call.id /\ old.id = call.id

\* an update that sets one of two fields and refreshes lastUpdated
C2_Witness ==
  /\ call.op = "updateLocation"
  /\ MapHas(before.locations, call.id)
  /\ DOMAIN call.data = {"status"}
  /\ "status" \in DOMAIN MapGet(before.locations, call.id)
  /\ ret.status # MapGet(before.locations, call.id).status
  /\ ret.regionId = MapGet(before.locations, call.id).regionId
  /\ ret.lastUpdated # MapGet(before.locations, call.id).lastUpdated

\* the fields create assigns by itself, id being the counter and date the
\* clock when create ran
ServerFields(e, id, date) ==
  CASE e \in {"activities", "metrics"} -> [id |-> id, timestamp |-> date]
    [] e \in {"locations", "inventoryItems"} -> [id |-> id, lastUpdated |-> date]
    [] e = "tasks" -> [id |-> id, completed |-> FALSE, completedAt |-> Null]
    [] OTHER -> [id |-> id]

\* C3: create(p) returns p extended with the server-assigned fields only, and
\* get of the returned id yields that same record.
C3_CreateThenGet ==
  \A e \in Entities :
    call.op = CreateOf[e] =>
      /\ MapGet(Store[e], ret.id) = ret
      /\ ret = Spread(call.data, ServerFields(e, before[CounterOf[e]], now))
      /\ \A k \in DOMAIN call.data : ret[k] = call.data[k]
      /\ now >= before.now

\* an insert payload without its optional column, created after time passed
C3_Witness ==
  /\ call.op = "createLocation"
  /\ "status" \notin DOMAIN call.data
  /\ now > before.now
  /\ MapGet(locations, ret.id) = ret

\* C4: delete of a present id returns true and get then finds nothing;
\* delete of an absent id returns false; and an id that was issued and is
\* absent stays absent whatever is called next.
C4_DeleteTwice ==
  \A e \in Entities :
    /\ call.op = DeleteOf[e] =>
         /\ ret = MapHas(before[e], call.id)
         /\ MapGet(Store[e], call.id) = Undefined
    /\ \A id \in 1..(before[CounterOf[e]] - 1) :
         ~MapHas(before[e], id) => ~MapHas(Store[e], id)

\* the second delete of the same id
C4_Witness ==
  /\ call.op = "deleteTask"
  /\ call.id < before.taskId
  /\ ~MapHas(before.tasks, call.id)
  /\ ret = FALSE

\* C5: update, complete and delete of an absent id report absence and leave
\* the seven maps and the seven counters as they were.
C5_AbsentIdIsNoop ==
  \A e \in Entities :
    /\ (call.op = UpdateOf[e] /\ ~MapHas(before[e], call.id)) =>
         ret = Undefined /\ SameStore(Store, before)
    /\ (call.op = DeleteOf[e] /\ ~MapHas(before[e], call.id)) =>
         ret = FALSE /\ SameStore(Store, before)
    /\ (e = "tasks" /\ call.op = "completeTask" /\ ~MapHas(before[e], call.id)) =>
         ret = Undefined /\ SameStore(Store, before)

\* an update with a non-empty payload addressed to an id not issued yet, and
\* a complete of a task deleted before
C5_Witness ==
  \/ /\ call.op = "updateMetric"
     /\ call.id = before.metricId
     /\ call.data # <<>>
     /\ ret = Undefined
  \/ /\ call.op = "completeTask"
     /\ call.id < before.taskId
     /\ ret = Undefined

\* the routes and the insert schema of each resource
PostOf == [users |-> "POST /api/users", regions |-> "POST /api/regions",
           locations |-> "POST /api/locations", inventoryItems |-> "POST /api/inventory",
           activities |-> "POST /api/activities", tasks |-> "POST /api/tasks",
           metrics |-> "POST /api/metrics"]
PutOf == [users |-> "PUT /api/users/:id", regions |-> "PUT /api/regions/:id",
          locations |-> "PUT /api/locations/:id", inventoryItems |-> "PUT /api/inventory/:id",
          activities |-> "PUT /api/activities/:id", tasks |-> "PUT /api/tasks/:id",
          metrics |-> "PUT /api/metrics/:id"]
SchemaOf == [users |-> insertUserSchema, regions |-> insertRegionSchema,
             locations |-> insertLocationSchema, inventoryItems |-> insertInventorySchema,
             activities |-> insertActivitySchema, tasks |-> insertTaskSchema,
             metrics |-> insertMetricSchema]
ServerKeys == {"id", "timestamp", "lastUpdated", "completed", "completedAt"}
\* the id, up to the counter c, that a request's path names in decimal
Named(param, c) == CHOOSE n \in 0..c : DecimalText(n) = param
\* a body without the keys the server assigns, the part of a body that
\* belongs to the insert shape of e, and the values a body carries
Strip(body) == [k \in (DOMAIN body) \ ServerKeys |-> body[k]]
Shape(e, body) == [k \in (DOMAIN body) \cap (DOMAIN SchemaOf[e]) |-> body[k]]
Values(body) == [k \in DOMAIN body |-> body[k].value]
\* what an update refreshes by itself
Refreshed(e, date) == [k \in RefreshedOf[e] |-> date]

\* C6: the response to a POST or a PUT, and the store it leaves, are fixed by
\* the store before, the clock, the id of the path and the insert-shape keys
\* of the body WITHOUT its id, timestamp, lastUpdated, completed and
\* completedAt keys: the status
\* is the one the body without them gets; a 201 carries, and the store
\* holds, that body extended with the fields the server assigns; a 200
\* carries, and the store holds, the old record overwritten by that body and
\* the refreshed lastUpdated; any other response leaves the store as it was.
\* Two bodies that differ in those keys only hence get the same response and
\* the same stored record.
C6_ServerFieldsIgnoreClient ==
  \A e \in Entities :
    LET s == Shape(e, Strip(call.data))
        id == Named(call.id, before[CounterOf[e]])
        old == MapGet(before[e], id)
    IN /\ call.op = PostOf[e] =>
            IF ParseOk(SchemaOf[e], s)
            THEN /\ res.status = 201
                 /\ res.body = Spread(Values(s), ServerFields(e, before[CounterOf[e]], now))
                 /\ MapGet(Store[e], res.body.id) = res.body
                 /\ Len(Store[e]) = Len(before[e]) + 1
            ELSE /\ res.status = 400
                 /\ SameStore(before, Store)
       /\ call.op = PutOf[e] =>
            IF ParseOk(partial(SchemaOf[e]), s) /\ MapHas(before[e], id)
            THEN /\ res.status = 200
                 /\ res.body = Spread(Spread(old, Values(s)), Refreshed(e, now))
                 /\ MapGet(Store[e], id) = res.body
                 /\ Len(Store[e]) = Len(before[e])
            ELSE /\ res.status = IF ParseOk(partial(SchemaOf[e]), s) THEN 404 ELSE 400
                 /\ SameStore(before, Store)

\* a PUT that carries an id and a timestamp of the client's and is answered
\* with the record's own
C6_Witness ==
  /\ call.op = "PUT /api/activities/:id"
  /\ res.status = 200
  /\ {"id", "timestamp", "type"} \subseteq DOMAIN call.data
  /\ res.body.type = call.data.type.value
  /\ res.body.id # call.data.id.value
  /\ res.body.timestamp # call.data.timestamp.value
  /\ MapGet(activities, Named(call.id, activityId)) = res.body

\* C7: complete of a task that exists sets completed, status "completed" and
\* completedAt to the instant it runs at and keeps every other field, also
\* when the task was completed before: completedAt is then overwritten.
C7_CompleteSetsAndOverwrites ==
  (call.op = "completeTask" /\ MapHas(before.tasks, call.id)) =>
    LET old == MapGet(before.tasks, call.id)
        new == MapGet(tasks, call.id)
    IN /\ ret = new
       /\ new.completed = TRUE
       /\ new.status = "completed"
       /\ new.completedAt = DateOf(now)
       /\ now >= before.now
       /\ DOMAIN new = (DOMAIN old) \cup {"status"}
       /\ \A k \in (DOMAIN old) \ {"completed", "status", "completedAt"} : new[k] = old[k]

\* a second complete, at a later instant, of a task completed before
C7_Witness ==
  /\ call.op = "completeTask"
  /\ MapHas(before.tasks, call.id)
  /\ MapGet(before.tasks, call.id).completed
  /\ MapGet(before.tasks, call.id).completedAt # ret.completedAt
  /\ ret.completedAt = DateOf(now)

\* C8: createTask stores completed = false and completedAt = null; between
\* two states a task's completed or completedAt differ only when complete was
\* called on that task, a update with any partial payload keeps both, and a
\* completed task stays completed for as long as it exists.
C8_CompletedOnlyByComplete ==
  /\ call.op = "createTask" =>
       /\ MapGet(tasks, ret.id).completed = FALSE
       /\ MapGet(tasks, ret.id).completedAt = Null
  /\ \A id \in MapKeys(before.tasks) \cap MapKeys(tasks) :
       LET old == MapGet(before.tasks, id)
           new == MapGet(tasks, id)
       IN /\ (new.completed # old.completed \/ new.completedAt # old.completedAt) =>
               (call.op = "completeTask" /\ call.id = id)
          /\ old.completed => new.completed
  /\ (call.op = "updateTask" /\ MapHas(before.tasks, call.id)) =>
       /\ ret.completed = MapGet(before.tasks, call.id).completed
       /\ ret.completedAt = MapGet(before.tasks, call.id).completedAt

\* an update that takes the status of a completed task away from "completed"
C8_Witness ==
  /\ call.op = "updateTask"
  /\ MapHas(before.tasks, call.id)
  /\ MapGet(before.tasks, call.id).completed
  /\ "status" \in DOMAIN call.data
  /\ ret.status # "completed"
  /\ ret.completed
  /\ ret.completedAt # Null

\* r is a list of upcoming tasks at instant date cut to limit: stored tasks,
\* none completed, each scheduled after date, no task twice, ascending by
\* scheduledDate, as many as limit allows, and no task left out is scheduled
\* before one that is in
IsUpcoming(r, date, limit) ==
  LET all == MapValues(tasks)
      cand == {i \in 1..Len(all) : ~all[i].completed /\ all[i].scheduledDate > date}
  IN /\ Len(r) = IF limit < Cardinality(cand) THEN limit ELSE Cardinality(cand)
     /\ \A i \in 1..Len(r) : \E c \in cand : all[c] = r[i]
     /\ \A i \in 1..Len(r) : ~r[i].completed /\ r[i].scheduledDate > date
     /\ \A i, j \in 1..Len(r) : i < j =>
          r[i].id # r[j].id /\ r[i].scheduledDate <= r[j].scheduledDate
     /\ \A c \in cand : (\A i \in 1..Len(r) : r[i].id # all[c].id) =>
          \A i \in 1..Len(r) : r[i].scheduledDate <= all[c].scheduledDate

\* C9: at every instant from now on and for every limit >= 0, listUpcoming
\* returns the first limit tasks among those not completed and scheduled
\* strictly later, in ascending order of scheduledDate; so does the call that
\* was made last.
C9_UpcomingTasks ==
  /\ \A date \in now..MaxTime, limit \in 0..(MaxLimit + 1) :
       IsUpcoming(UpcomingTasks(date, limit), date, limit)
  /\ call.op = "getUpcomingTasks" => IsUpcoming(ret, now, call.data)

\* a call that leaves out a task for being completed and another for being
\* scheduled at the very instant the call runs at, and returns as many tasks
\* as the limit allows
C9_Witness ==
  /\ call.op = "getUpcomingTasks"
  /\ call.data > 0
  /\ Len(ret) = call.data
  /\ \E i \in 1..Len(tasks) : tasks[i].v.completed /\ tasks[i].v.scheduledDate > now
  /\ \E i \in 1..Len(tasks) : ~tasks[i].v.completed /\ tasks[i].v.scheduledDate = now

\* r is the latest metric of each category of the fixed list that has one
IsLatest(r) ==
  LET all == MapValues(metrics)
      Of(c) == {i \in 1..Len(all) : all[i].category = c}
      Pos(c) == CHOOSE n \in 1..Len(categories) : categories[n] = c
  IN /\ \A i \in 1..Len(r) :
          /\ \E n \in 1..Len(categories) : categories[n] = r[i].category
          /\ \E j \in 1..Len(all) : all[j] = r[i]
          /\ \A j \in Of(r[i].category) : all[j].timestamp <= r[i].timestamp
     /\ \A n \in 1..Len(categories) :
          Cardinality({i \in 1..Len(r) : r[i].category = categories[n]})
            = IF Of(categories[n]) = {} THEN 0 ELSE 1
     /\ \A i, j \in 1..Len(r) : i < j => Pos(r[i].category) < Pos(r[j].category)

\* C10: listLatest holds, for each of coverage, species, risk, health that
\* has a metric, exactly one stored metric of it, of the greatest timestamp in
\* the category, nothing for a category without metrics or outside the list,
\* in the order of the list.
C10_LatestMetrics ==
  /\ IsLatest(LatestMetrics)
  /\ call.op = "getLatestMetrics" => IsLatest(ret)

\* two health metrics of different timestamps, the answer holding the later
C10_Witness ==
  /\ call.op = "getLatestMetrics"
  /\ \E i, j \in 1..Len(metrics) :
       /\ metrics[i].v.category = "health" /\ metrics[j].v.category = "health"
       /\ metrics[i].v.timestamp < metrics[j].v.timestamp
       /\ \E n \in 1..Len(ret) : ret[n] = metrics[j].v
       /\ \A n \in 1..Len(ret) : ret[n] # metrics[i].v

\* r is what listRecent(limit) is to return: stored activities, no activity
\* twice, descending by timestamp, as many as limit allows, and no activity
\* left out is newer than one that is in
IsRecent(r, limit) ==
  LET all == MapValues(activities)
  IN /\ Len(r) = IF limit < Len(all) THEN limit ELSE Len(all)
     /\ \A i \in 1..Len(r) : \E j \in 1..Len(all) : all[j] = r[i]
     /\ \A i, j \in 1..Len(r) : i < j =>
          r[i].id # r[j].id /\ r[i].timestamp >= r[j].timestamp
     /\ \A j \in 1..Len(all) : (\A i \in 1..Len(r) : r[i].id # all[j].id) =>
          \A i \in 1..Len(r) : r[i].timestamp >= all[j].timestamp

\* C11: for every reachable activity collection and every limit >= 0,
\* listRecent(limit) returns the first limit activities in descending order of
\* timestamp, no returned activity being older than an omitted one, and every
\* activity when limit is at least the size of the collection; so does the
\* call that was made last.
C11_RecentActivities ==
  /\ \A limit \in 0..(Len(activities) + 1) : IsRecent(RecentActivities(limit), limit)
  /\ \A limit \in Len(activities)..(Len(activities) + 1) :
       Len(RecentActivities(limit)) = Len(activities)
  /\ call.op = "getRecentActivities" => IsRecent(ret, call.data)

\* a call that returns as many activities as the limit allows and leaves out
\* one that is older than one it returns
C11_Witness ==
  /\ call.op = "getRecentActivities"
  /\ call.data > 0
  /\ Len(ret) = call.data
  /\ \E j \in 1..Len(activities) :
       /\ \A i \in 1..Len(ret) : ret[i].id # activities[j].v.id
       /\ \E i \in 1..Len(ret) : ret[i].timestamp > activities[j].v.timestamp

\* C12: listByRegion(regionId), whatever integer regionId is and whether or
\* not a region has that id, returns each stored location whose regionId
\* equals the argument, once, and nothing else (the empty list when none
\* matches), and leaves the store as it was.
C12_LocationsByRegion ==
  call.op = "getLocationsByRegion" =>
    LET all == MapValues(locations)
        match == {j \in 1..Len(all) : all[j].regionId = call.id}
    IN /\ \A i \in 1..Len(ret) : \E j \in match : all[j] = ret[i]
       /\ \A j \in match : \E i \in 1..Len(ret) : ret[i] = all[j]
       /\ Len(ret) = Cardinality(match)
       /\ match = {} => ret = <<>>
       /\ SameStore(before, Store)

\* a call for an id no region has that returns a location, while another
\* location is left out
C12_Witness ==
  /\ call.op = "getLocationsByRegion"
  /\ ~MapHas(regions, call.id)
  /\ Len(ret) > 0
  /\ Len(ret) < Len(locations)

\* C13: a POST or a PUT whose body fails the schema (the partial schema for
\* a PUT) is answered 400 with an error message, and every collection and
\* every id counter is as it was before the request, the clock unread: a
\* rejected POST uses up no id, and a PUT is rejected whether or not its id
\* is there.
C13_InvalidBodyNeverStored ==
  \A e \in Entities :
    /\ (call.op = PostOf[e] /\ ~ParseOk(SchemaOf[e], call.data)) =>
         /\ res.status = 400
         /\ DOMAIN res.body = {"error"}
         /\ SameStore(before, Store)
         /\ now = before.now
    /\ (call.op = PutOf[e] /\ ~ParseOk(partial(SchemaOf[e]), call.data)) =>
         /\ res.status = 400
         /\ DOMAIN res.body = {"error"}
         /\ SameStore(before, Store)
         /\ now = before.now

\* a PUT with a value of the wrong type, sent to an id that is not there
C13_Witness ==
  /\ call.op = "PUT /api/users/:id"
  /\ ~MapHas(before.users, Named(call.id, before.userId))
  /\ "username" \in DOMAIN call.data
  /\ call.data.username.type = "number"
  /\ res.status = 400

\* C14: a POST /api/inventory whose quantity is negative is answered 400
\* with an error message, and no inventory item is stored.
C14_NegativeQuantityRejected ==
  (/\ call.op = "POST /api/inventory"
   /\ "quantity" \in DOMAIN call.data
   /\ call.data.quantity.type = "number"
   /\ call.data.quantity.value < 0) =>
    /\ res.status = 400
    /\ DOMAIN res.body = {"error"}
    /\ SameStore(before, Store)

\* C15: a request to create a user whose password confirmation differs from
\* its password is answered 400 with an error message, and no user is
\* stored.
C15_ConfirmationMismatchRejected ==
  (/\ call.op = "POST /api/users"
   /\ {"password", "confirmPassword"} \subseteq DOMAIN call.data
   /\ call.data.password # call.data.confirmPassword) =>
    /\ res.status = 400
    /\ DOMAIN res.body = {"error"}
    /\ SameStore(before, Store)

\* the GET and DELETE routes of each resource, and what it is called
GetIdOf == [users |-> "GET /api/users/:id", regions |-> "GET /api/regions/:id",
            locations |-> "GET /api/locations/:id", inventoryItems |-> "GET /api/inventory/:id",
            activities |-> "GET /api/activities/:id", tasks |-> "GET /api/tasks/:id",
            metrics |-> "GET /api/metrics/:id"]
DeleteIdOf == [users |-> "DELETE /api/users/:id", regions |-> "DELETE /api/regions/:id",
               locations |-> "DELETE /api/locations/:id",
               inventoryItems |-> "DELETE /api/inventory/:id",
               activities |-> "DELETE /api/activities/:id", tasks |-> "DELETE /api/tasks/:id",
               metrics |-> "DELETE /api/metrics/:id"]
ResourceOf == [users |-> "User", regions |-> "Region", locations |-> "Location",
               inventoryItems |-> "Inventory item", activities |-> "Activity",
               tasks |-> "Task", metrics |-> "Metric"]
\* the path names no record of m: it is the decimal text of an id that m
\* lacks (ids up to the counter c, and 999), or it does not start with a digit
NoRecord(m, c, param) ==
  \/ \E n \in (0..c) \cup {999} : param = DecimalText(n) /\ ~MapHas(m, n)
  \/ param = <<>>
  \/ param # <<>> /\ param[1] \notin {DigitChars[i] : i \in DOMAIN DigitChars}

\* C16: a GET, a PUT with a valid body, a DELETE and, for tasks, a PUT
\* .../complete whose path names no record, by an id that is not there or by
\* a text that is no number, is answered 404 with {error: "<Resource> not
\* found"} and leaves every collection and counter as it was, the clock
\* unread.
C16_MissingIdIs404 ==
  \A e \in Entities :
    (/\ \/ call.op \in {GetIdOf[e], DeleteIdOf[e]}
        \/ call.op = PutOf[e] /\ ParseOk(partial(SchemaOf[e]), call.data)
        \/ e = "tasks" /\ call.op = "PUT /api/tasks/:id/complete"
     /\ NoRecord(before[e], before[CounterOf[e]], call.id)) =>
      /\ res = [status |-> 404, body |-> [error |-> ResourceOf[e] \o " not found"]]
      /\ SameStore(before, Store)
      /\ now = before.now

\* a PUT .../complete on a text that is no number, answered 404
C16_Witness ==
  /\ call.op = "PUT /api/tasks/:id/complete"
  /\ call.id = <<"a", "b", "c">>
  /\ res.status = 404
  /\ res.body.error = "Task not found"
  /\ SameStore(before, Store)

\* the methods that write to the collection e
WritesOf(e) ==
  {CreateOf[e], UpdateOf[e], DeleteOf[e]} \cup (IF e = "tasks" THEN {"completeTask"} ELSE {})

\* C17: a create, an update, a delete or a complete on one entity leaves the
\* six other collections and their id counters as they were; so the deletion
\* of a region leaves every location as it was, those that reference the
\* region too, and the deletion of a user every activity and every task.
C17_CollectionsIndependent ==
  /\ \A e \in Entities : call.op \in WritesOf(e) =>
       \A f \in Entities \ {e} :
         /\ Store[f] = before[f]
         /\ Store[CounterOf[f]] = before[CounterOf[f]]
  /\ call.op = "deleteRegion" => locations = before.locations
  /\ call.op = "deleteUser" => activities = before.activities /\ tasks = before.tasks

\* the deletion of a region that a location references: the region is gone,
\* the location is there
C17_Witness ==
  /\ call.op = "deleteRegion"
  /\ ret = TRUE
  /\ ~MapHas(regions, call.id)
  /\ \E i \in 1..Len(locations) : locations[i].v.regionId = call.id

\* the requests that created an item
Created == {r \in DOMAIN inflight : "item" \in DOMAIN inflight[r]}

\* C18: however the handlers of concurrent POSTs to /api/inventory
\* interleave at their awaits, no two of them get the same id, each item
\* created is in the store as it was created, the store has grown by one item
\* for each, the counter has moved past every id, and each 201 carries the
\* item of its own request.
C18_ConcurrentCreatesDistinct ==
  /\ \A r1, r2 \in Created : r1 # r2 => inflight[r1].item.id # inflight[r2].item.id
  /\ \A r \in Created :
       /\ MapGet(inventoryItems, inflight[r].item.id) = inflight[r].item
       /\ inflight[r].item.id < inventoryId
  /\ Len(inventoryItems) = Len(SeedInventory) + Cardinality(Created)
  /\ \A r \in DOMAIN inflight :
       inflight[r].pc = "done" =>
         IF r \in Created
         THEN inflight[r].res = [status |-> 201, body |-> inflight[r].item]
         ELSE inflight[r].res.status = 400

\* two handlers that have both created their item and both wait at their
\* await
C18_Witness ==
  \E r1, r2 \in Created :
    /\ r1 # r2
    /\ inflight[r1].pc = "awaiting"
    /\ inflight[r2].pc = "awaiting"
    /\ inflight[r1].item.id # inflight[r2].item.id

\* the size of the demo dataset
SeedCount == [users |-> 3, regions |-> 4, locations |-> 3, inventoryItems |-> 4,
              activities |-> 4, tasks |-> 3, metrics |-> 4]

\* C19: right after construction the store holds 3 users, 4 regions, 3
\* locations, 4 inventory items, 4 activities, 3 tasks and 4 metrics, under
\* the ids 1..n in each collection; the first create on a collection then
\* returns n + 1, and the creates after it strictly increasing ids.
C19_SeededStore ==
  \A e \in Entities :
    LET n == SeedCount[e]
        r == returned[CreateOf[e]]
    IN /\ call.op = "constructor" =>
            /\ Len(Store[e]) = n
            /\ \A i \in 1..n : Store[e][i].k = i /\ Store[e][i].v.id = i
       /\ Len(r) >= n
       /\ \A i \in 1..n : r[i] = i
       /\ Len(r) > n => r[n + 1] = n + 1
       /\ \A i, j \in (n + 1)..Len(r) : i < j => r[i] < r[j]
       /\ call.op = CreateOf[e] => ret.id = r[Len(r)] /\ ret.id > n

\* the second create after construction, on the collection of the first
C19_Witness ==
  /\ call.op = "createRegion"
  /\ returned.createRegion = <<1, 2, 3, 4, 5, 6>>
  /\ ret.id = 6
  /\ MapKeys(regions) = 1..6

\* ------------------------------------------------- requests and responses
\* Requests arrive while others are waiting for their handler; the event
\* loop runs the handler of each request that has arrived, once, and the
\* handler sends its response.  id is the text of the path parameter or of
\* the query parameter, data the body.
Request(op, id, data) == [op |-> op, id |-> id, data |-> data]
Requests ==
  << Request("GET /api/users", <<>>, <<>>),
     Request("GET /api/users/:id", <<"3">>, <<>>),
     Request("POST /api/users", <<>>, UserBodies[1]),
     Request("POST /api/users", <<>>, UserBodies[3]),
     Request("PUT /api/users/:id", <<"3">>, UserBodies[2]),
     Request("PUT /api/users/:id", <<"3">>, UserBodies[3]),
     Request("DELETE /api/users/:id", <<"3">>, <<>>),
     Request("PUT /api/tasks/:id/complete", <<"3">>, <<>>) >>

Receive(q) ==
  /\ calls < MaxCalls
  /\ calls' = calls + 1
  /\ inflight' = Append(inflight, [pc |-> "start", request |-> q])
  /\ UNCHANGED <<maps, counters, now, ret, res, call, before, returned, answers>>

\* Express picks the handler by method and path
Dispatch(q) ==
  \/ q.op = "GET /api/users" /\ GetApiUsers
  \/ q.op = "GET /api/users/:id" /\ GetApiUsersId(q.id)
  \/ q.op = "POST /api/users" /\ PostApiUsers(q.data)
  \/ q.op = "PUT /api/users/:id" /\ PutApiUsersId(q.id, q.data)
  \/ q.op = "DELETE /api/users/:id" /\ DeleteApiUsersId(q.id)
  \/ q.op = "PUT /api/tasks/:id/complete" /\ PutApiTasksIdComplete(q.id)

\* the handler of the r-th request runs and responds; the response is kept
\* with the request it answers and the store the handler found
Handle(r) ==
  /\ r \in DOMAIN inflight
  /\ inflight[r].pc = "start"
  /\ inflight' = [inflight EXCEPT ![r].pc = "done"]
  /\ Dispatch(inflight[r].request)
  /\ answers' = Append(answers, [to |-> r, response |-> res', store |-> Store])
  /\ call' = inflight[r].request
  /\ before' = Store
  /\ returned' = IF res'.status = 201
                 THEN LET e == CHOOSE e \in Entities : PostOf[e] = inflight[r].request.op
                      IN [returned EXCEPT ![CreateOf[e]] = Append(@, ret'.id)]
                 ELSE returned
  /\ UNCHANGED calls

RequestNext ==
  \/ \E i \in DOMAIN Requests : Receive(Requests[i])
  \/ \E r \in 1..MaxCalls : Handle(r)

\* the event loop runs every callback that is ready
RequestSpec == Init /\ [][RequestNext]_vars /\ \A r \in 1..MaxCalls : WF_inflight(Handle(r))

GetOf == [users |-> "GET /api/users", regions |-> "GET /api/regions",
          locations |-> "GET /api/locations", inventoryItems |-> "GET /api/inventory",
          activities |-> "GET /api/activities", tasks |-> "GET /api/tasks",
          metrics |-> "GET /api/metrics"]
CompleteOf == [e \in Entities |-> IF e = "tasks" THEN "PUT /api/tasks/:id/complete" ELSE ""]

\* the status the outcome of request q on collection e calls for, m being
\* the collection when the handler ran and "there" that the path is the
\* decimal text of one of its keys
StatusFor(q, e, m) ==
  LET there == \E i \in 1..Len(m) : q.id = DecimalText(m[i].k)
  IN CASE q.op = GetOf[e] -> 200
       [] q.op = PostOf[e] -> IF ParseOk(SchemaOf[e], q.data) THEN 201 ELSE 400
       [] q.op = PutOf[e] ->
            IF ~ParseOk(partial(SchemaOf[e]), q.data) THEN 400
            ELSE IF there THEN 200 ELSE 404
       [] q.op \in {GetIdOf[e], CompleteOf[e]} -> IF there THEN 200 ELSE 404
       [] q.op = DeleteIdOf[e] -> IF there THEN 204 ELSE 404
       [] OTHER -> 0

\* a request is not answered before its handler ran and is answered once
\* when it has; the answer has the status its outcome calls for: 201 with the
\* record, 204 with no body, 400 and 404 with an error message alone; no
\* answer is a 500, no outcome being a failure of another kind
Answered ==
  \A r \in DOMAIN inflight :
    LET q == inflight[r].request
        mine == {i \in DOMAIN answers : answers[i].to = r}
    IN IF inflight[r].pc = "start" THEN mine = {}
       ELSE /\ inflight[r].pc = "done"
            /\ Cardinality(mine) = 1
            /\ \A i \in mine :
                 LET a == answers[i].response
                 IN /\ a.status \in {200, 201, 204, 400, 404}
                    /\ \E e \in Entities : a.status = StatusFor(q, e, answers[i].store[e])
                    /\ a.status = 201 => "id" \in DOMAIN a.body
                    /\ a.status = 204 <=> DOMAIN a = {"status"}
                    /\ a.status \in {400, 404} => DOMAIN a.body = {"error"}

\* C20: every request is answered in the end, by exactly one response, and
\* nothing is pending when the handlers have run; the status follows from
\* the outcome: 201 with the record for a create, 200 for a read, an update
\* or a complete, 204 with no body for a delete, 400 for a body the schema
\* rejects, 404 for an id that is not there, and 500 for no request, no other
\* failure being there to answer.
C20_EveryRequestAnswered ==
  /\ []Answered
  /\ \A r \in 1..MaxCalls :
       (r \in DOMAIN inflight) ~> (r \in DOMAIN inflight /\ inflight[r].pc = "done")

\* a delete answered 204 while a request that arrived before it still waits
\* for its handler
C20_Witness ==
  \E r1, r2 \in DOMAIN inflight :
    /\ r1 < r2
    /\ inflight[r1].pc = "start"
    /\ inflight[r2].pc = "done"
    /\ inflight[r2].request.op = "DELETE /api/users/:id"
    /\ answers = << [to |-> r2, response |-> [status |-> 204], store |-> before] >>

\* ------------------------------------------------------- query parameters
\* C21: GET /api/locations with a regionId that parses to an integer R
\* answers exactly the locations whose regionId is R, for every integer R,
\* 0 and ids of no region included; without the parameter it answers all
\* locations.
C21_RegionIdFilters ==
  call.op = "GET /api/locations" =>
    LET R == parseInt(call.id)
        all == MapValues(before.locations)
    IN /\ res.status = 200
       /\ (call.id # <<>> /\ R # NaN) =>
            res.body = SelectSeq(all, LAMBDA location : location.regionId = R)
       /\ call.id = <<>> => res.body = all

\* C22: GET /api/activities and GET /api/tasks with a limit that parses to
\* an integer N answer at most N records (none when N is below zero), for
\* every integer N: the first of the activities taken newest first, and
\* for tasks only tasks that are not completed and lie in the future.
C22_LimitTruncates ==
  LET N == parseInt(call.id)
      most == IF N < 0 THEN 0 ELSE N
      newestFirst == RecentActivities(Len(activities))
  IN (call.op \in {"GET /api/activities", "GET /api/tasks"} /\ call.id # <<>> /\ N # NaN) =>
       /\ res.status = 200
       /\ Len(res.body) <= most
       /\ call.op = "GET /api/activities" =>
            res.body = SubSeq(newestFirst, 1, Len(res.body))
       /\ call.op = "GET /api/tasks" =>
            \A i \in 1..Len(res.body) :
              ~res.body[i].completed /\ res.body[i].scheduledDate > now

\* --------------------------------------------------------- empty updates
\* C23: an update with the empty partial of a record that exists returns
\* and stores the prior record, equal in every field but lastUpdated of a
\* location or an inventory item, which becomes the current time and is
\* never earlier than before; and no update of an activity or a metric
\* changes the timestamp the record got when it was created.
C23_EmptyUpdateKeepsRecord ==
  \A e \in Entities :
    (call.op = UpdateOf[e] /\ MapHas(before[e], call.id)) =>
      LET old == MapGet(before[e], call.id)
          new == MapGet(Store[e], call.id)
      IN /\ DOMAIN call.data = {} =>
              /\ ret = new
              /\ DOMAIN new = DOMAIN old
              /\ \A k \in (DOMAIN old) \ RefreshedOf[e] : new[k] = old[k]
              /\ \A k \in RefreshedOf[e] : new[k] = now /\ new[k] >= old[k]
              /\ RefreshedOf[e] = {} => Store = [before EXCEPT !.now = now]
         /\ e \in {"activities", "metrics"} => new.timestamp = old.timestamp

\* an empty update of an inventory item made later than its last update
C23_Witness ==
  /\ call.op = "updateInventoryItem"
  /\ MapHas(before.inventoryItems, call.id)
  /\ DOMAIN call.data = {}
  /\ ret.lastUpdated > MapGet(before.inventoryItems, call.id).lastUpdated
  /\ ret.quantity = MapGet(before.inventoryItems, call.id).quantity

\* ------------------------------------------------------------ list order
ListOf == [users |-> "getUsers", regions |-> "getRegions", locations |-> "getLocations",
           inventoryItems |-> "getInventoryItems", activities |-> "getActivities",
           tasks |-> "getTasks", metrics |-> "getMetrics"]

\* C24: in every state the list of every entity is all its stored records
\* in the order of their creation, which is strictly ascending id: a create
\* appends, an update or a complete keeps every record at its place, and a
\* delete removes one record and leaves the others in their order.
C24_ListInCreationOrder ==
  \A e \in Entities :
    LET was == MapValues(before[e])
        vs == MapValues(Store[e])
    IN /\ \A i, j \in 1..Len(vs) : i < j => vs[i].id < vs[j].id
       /\ call.op = ListOf[e] => ret = vs /\ vs = was
       /\ call.op = CreateOf[e] => vs = Append(was, ret)
       /\ (call.op = UpdateOf[e] \/ (e = "tasks" /\ call.op = "completeTask")) =>
            /\ Len(vs) = Len(was)
            /\ \A i \in 1..Len(vs) : vs[i].id = was[i].id
            /\ \A i \in 1..Len(vs) : was[i].id # call.id => vs[i] = was[i]
       /\ call.op = DeleteOf[e] =>
            vs = SelectSeq(was, LAMBDA v : v.id # call.id)

\* the list of tasks after the first of them was renamed
C24_Witness ==
  /\ call.op = "getTasks"
  /\ Len(ret) = 3
  /\ ret[1].id = 1 /\ ret[1].title = "Renamed"
  /\ ret[2].id = 2 /\ ret[3].id = 3

\* ------------------------------------------------------------- usernames
\* the users of a store that carry a username
Holders(m, username) == {i \in 1..Len(m) : m[i].v.username = username}

\* C25: createUser, and updateUser with a username, succeed whatever
\* usernames are stored, a username another user has included, so that two
\* users may share a username; getUserByUsername then returns the user of
\* the smallest id among them, and undefined when there is none.
C25_UsernamesNotConsulted ==
  /\ call.op = "createUser" =>
       /\ ret.id = before.userId
       /\ ret.username = call.data.username
       /\ MapGet(users, ret.id) = ret
       /\ Cardinality(Holders(users, ret.username)) =
            Cardinality(Holders(before.users, ret.username)) + 1
  /\ (call.op = "updateUser" /\ MapHas(before.users, call.id)
        /\ "username" \in DOMAIN call.data) =>
       /\ ret.username = call.data.username
       /\ MapGet(users, call.id) = ret
       /\ \A i \in 1..Len(users) :
            users[i].k # call.id => users[i] = before.users[i]
  /\ call.op = "getUserByUsername" =>
       LET hit == Holders(users, call.id)
       IN IF hit = {} THEN ret = Undefined
          ELSE /\ ret # Undefined
               /\ \E i \in hit : ret = users[i].v
               /\ \A i \in hit : ret.id <= users[i].v.id

\* two users named admin, and the lookup that finds the first of them
C25_Witness ==
  /\ call.op = "getUserByUsername"
  /\ call.id = "admin"
  /\ Cardinality(Holders(users, "admin")) = 2
  /\ ret.id = 1

\* ------------------------------------------------------------------ keys
\* C26: in every state every record of every collection is stored under
\* the key that equals its id, whatever requests were made, so that a
\* record found under k has the id k; the id a request body carries is
\* dropped before the storage sees the body.
C26_StoredUnderOwnId ==
  /\ \A e \in Entities :
       /\ \A i \in 1..Len(Store[e]) : Store[e][i].v.id = Store[e][i].k
       /\ \A k \in MapKeys(Store[e]) : MapGet(Store[e], k).id = k
  /\ \A e \in Entities :
       (call.op \in {PostOf[e], PutOf[e]} /\ res.status \in {200, 201}) =>
         MapGet(Store[e], res.body.id) = res.body

\* a PUT whose body names another id, answered with the record updated
C26_Witness ==
  /\ call.op = "PUT /api/regions/:id"
  /\ "id" \in DOMAIN call.data
  /\ call.data.id.value # parseInt(call.id)
  /\ res.status = 200
  /\ res.body.id = parseInt(call.id)
  /\ MapGet(regions, parseInt(call.id)) = res.body

\* ------------------------------------------------- completed and its date
\* C27: in every state every task has completed = false exactly when its
\* completedAt is null; completedAt becomes a date by complete alone, on
\* the task completed, and no other method changes it on a stored task.
C27_CompletedIffCompletedAt ==
  /\ \A i \in 1..Len(tasks) :
       /\ tasks[i].v.completed \in BOOLEAN
       /\ (tasks[i].v.completed = FALSE) <=> (tasks[i].v.completedAt = Null)
  /\ \A i \in 1..Len(tasks) :
       LET id == tasks[i].k
           task == tasks[i].v
       IN IF call.op = "completeTask" /\ call.id = id
          THEN task.completed /\ task.completedAt = DateOf(now)
          ELSE IF MapHas(before.tasks, id)
               THEN task.completedAt = MapGet(before.tasks, id).completedAt
               ELSE task.completedAt = Null

\* one task completed next to one that was never completed
C27_Witness ==
  /\ call.op = "completeTask"
  /\ MapHas(before.tasks, call.id)
  /\ ret.completed /\ ret.completedAt # Null
  /\ \E i \in 1..Len(tasks) : ~tasks[i].v.completed /\ tasks[i].v.completedAt = Null

\* ------------------------------------------------------ status and flag
\* the tasks listUpcoming selects from: not completed and scheduled later
\* than the current time
Due == {i \in 1..Len(tasks) : ~tasks[i].v.completed /\ tasks[i].v.scheduledDate > now}

\* C28: update stores the status it is given and never touches completed
\* or completedAt, so the two can disagree either way; listUpcoming
\* selects on completed and scheduledDate alone, so it returns a future
\* task that is not completed whatever its status says.
C28_StatusNotSynced ==
  /\ (call.op = "updateTask" /\ MapHas(before.tasks, call.id)) =>
       LET old == MapGet(before.tasks, call.id)
       IN /\ ret.completed = old.completed
          /\ ret.completedAt = old.completedAt
          /\ "status" \in DOMAIN call.data => ret.status = call.data.status
          /\ MapGet(tasks, call.id) = ret
  /\ call.op = "getUpcomingTasks" =>
       /\ \A i \in 1..Len(ret) : \E j \in Due : ret[i] = tasks[j].v
       /\ Len(ret) = IF Cardinality(Due) < call.data THEN Cardinality(Due) ELSE call.data

\* listUpcoming returning a task whose status is completed or cancelled
C28_Witness ==
  /\ call.op = "getUpcomingTasks"
  /\ \E i \in 1..Len(ret) :
       /\ "status" \in DOMAIN ret[i]
       /\ ret[i].status \in {"completed", "cancelled"}
       /\ ~ret[i].completed
       /\ ret[i].scheduledDate > now

\* ----------------------------------------------------------------- reads
ReadOps ==
  {"getUser", "getUserByUsername", "getUsers", "getRegion", "getRegions",
   "getLocation", "getLocations", "getLocationsByRegion", "getInventoryItem",
   "getInventoryItems", "getActivity", "getActivities", "getRecentActivities",
   "getTask", "getTasks", "getUpcomingTasks", "getMetric", "getMetrics",
   "getLatestMetrics"}

\* C29: every read leaves the store as it found it: each collection with
\* its records in their stored order, and each id counter; so what list
\* returns after a sorted read is what it returned before.
C29_ReadsLeaveStore ==
  call.op \in ReadOps =>
    /\ SameStore(before, Store)
    /\ \A e \in Entities : MapValues(Store[e]) = MapValues(before[e])

\* a read whose newest-first answer is not in the stored order
C29_Witness ==
  /\ call.op = "getRecentActivities"
  /\ Len(ret) > 1
  /\ ret[1].id > ret[2].id
  /\ activities = before.activities

\* ------------------------------------------------------ concurrent updates
\* PUT /api/tasks/:id and PUT /api/tasks/:id/complete have one await each,
\* on a storage method without an await of its own: a handler runs from
\* its first statement through the whole method, gives way, resumes and
\* responds.  The requests set the title or the assignee of task 3, or
\* complete it; one renames task 2 and one carries a title of the wrong type.
TaskPuts ==
  << Request("PUT /api/tasks/:id", <<"3">>, [title |-> Str("Renamed")]),
     Request("PUT /api/tasks/:id", <<"3">>, [assignedTo |-> Num(1)]),
     Request("PUT /api/tasks/:id/complete", <<"3">>, <<>>),
     Request("PUT /api/tasks/:id", <<"2">>, [title |-> Str("Renamed")]),
     Request("PUT /api/tasks/:id", <<"3">>, TaskBodies[3]) >>

\* updateTask giving way between reading the record and writing the merge
PutApiTasksIdStart_awaitsInside(r) ==
  LET q == inflight[r].request
      id == parseInt(q.id)
  IN \/ /\ inflight[r].pc = "start"
        /\ q.op = "PUT /api/tasks/:id"
        /\ ParseOk(partial(insertTaskSchema), q.data)
        /\ inflight' = [inflight EXCEPT ![r] =
                          [pc |-> "reading", request |-> q, existing |-> MapGet(tasks, id)]]
        /\ UNCHANGED <<maps, counters, now, ret, res>>
     \/ /\ inflight[r].pc = "start"
        /\ q.op = "PUT /api/tasks/:id"
        /\ ~ParseOk(partial(insertTaskSchema), q.data)
        /\ handleZodError
        /\ inflight' = [inflight EXCEPT ![r] = [pc |-> "done", request |-> q, res |-> res']]
        /\ UNCHANGED <<maps, counters, now, ret>>
     \/ /\ inflight[r].pc = "reading"
        /\ LET updatedTask ==
                 Spread(inflight[r].existing, parse(partial(insertTaskSchema), q.data))
           IN /\ tasks' = MapSet(tasks, id, updatedTask)
              /\ ret' = updatedTask
              /\ inflight' = [inflight EXCEPT ![r] =
                                [pc |-> "awaiting", request |-> q, task |-> updatedTask]]
        /\ UNCHANGED <<users, regions, locations, inventoryItems, activities, metrics>>
        /\ UNCHANGED <<counters, now, res>>

\* PUT /api/tasks/:id from its first statement to the await: parseInt,
\* parse, then the whole of updateTask; a ZodError is answered at once
PutApiTasksIdStart(r) ==
  LET q == inflight[r].request
  IN /\ inflight[r].pc = "start"
     /\ q.op = "PUT /api/tasks/:id"
     /\ IF ParseOk(partial(insertTaskSchema), q.data)
        THEN /\ updateTask(parseInt(q.id), parse(partial(insertTaskSchema), q.data))
             /\ inflight' = [inflight EXCEPT ![r] =
                               [pc |-> "awaiting", request |-> q, task |-> ret']]
             /\ UNCHANGED res
        ELSE /\ handleZodError
             /\ inflight' = [inflight EXCEPT ![r] =
                               [pc |-> "done", request |-> q, res |-> res']]
             /\ UNCHANGED <<maps, counters, now, ret>>

\* PUT /api/tasks/:id/complete from its first statement to the await:
\* parseInt, then the whole of completeTask
PutApiTasksIdCompleteStart(r) ==
  LET q == inflight[r].request
  IN /\ inflight[r].pc = "start"
     /\ q.op = "PUT /api/tasks/:id/complete"
     /\ completeTask(parseInt(q.id))
     /\ inflight' = [inflight EXCEPT ![r] =
                       [pc |-> "awaiting", request |-> q, task |-> ret']]
     /\ UNCHANGED res

\* either handler after its await: 404 when the method found nothing, else
\* res.json of the record the method returned
PutApiTasksIdResume(r) ==
  /\ inflight[r].pc = "awaiting"
  /\ res' = Updated(inflight[r].task, "Task not found")
  /\ inflight' = [inflight EXCEPT ![r] =
                    [pc |-> "done", request |-> @.request, task |-> @.task, res |-> res']]
  /\ UNCHANGED <<maps, counters, now, ret>>

UpdateRaceNext ==
  \/ \E i \in DOMAIN TaskPuts : Receive(TaskPuts[i])
  \/ \E r \in DOMAIN inflight :
       PutApiTasksIdStart(r) /\ UNCHANGED <<call, before, returned, answers, calls>>
  \/ \E r \in DOMAIN inflight :
       PutApiTasksIdCompleteStart(r) /\ UNCHANGED <<call, before, returned, answers, calls>>
  \/ \E r \in DOMAIN inflight :
       PutApiTasksIdResume(r) /\ UNCHANGED <<call, before, returned, answers, calls>>

UpdateRaceSpec == Init /\ [][UpdateRaceNext]_vars

\* the requests whose storage method has returned a record
Applied == {r \in DOMAIN inflight : "task" \in DOMAIN inflight[r] /\ inflight[r].task # Undefined}

\* C30: however the handlers of concurrent PUTs to one task interleave at
\* their awaits, the stored task carries the fields of every update that
\* was applied, and completed, the status and a completedAt (that of the
\* latest complete) once a complete was applied; each 200 carries the
\* record its own method returned.
C30_NoLostUpdate ==
  /\ \A r \in Applied :
       LET q == inflight[r].request
           stored == MapGet(tasks, parseInt(q.id))
       IN IF q.op = "PUT /api/tasks/:id"
          THEN \A k \in DOMAIN q.data : stored[k] = q.data[k].value
          ELSE /\ stored.completed
               /\ stored.completedAt # Null
               /\ stored.completedAt[1] >= inflight[r].task.completedAt[1]
               /\ stored.status = "completed"
  /\ \A r \in DOMAIN inflight :
       inflight[r].pc = "done" =>
         IF r \in Applied
         THEN inflight[r].res = [status |-> 200, body |-> inflight[r].task]
         ELSE inflight[r].res.status \in {400, 404}

\* two updates of task 3 that set different fields, both past their method
\* and both waiting at their await
C30_Witness ==
  \E r1, r2 \in Applied :
    /\ inflight[r1].pc = "awaiting" /\ inflight[r2].pc = "awaiting"
    /\ inflight[r1].request = TaskPuts[1]
    /\ inflight[r2].request = TaskPuts[2]
    /\ MapGet(tasks, 3).title = "Renamed"
    /\ MapGet(tasks, 3).assignedTo = 1

====
